---- MODULE Spec2Model ----
(***************************************************************************)
(* Model of the basis indexing library: the generic subspace / space /     *)
(* sectors containers of basis.h and the single-particle orbital           *)
(* enumerations, orbital sector enumerations and orbital definition text   *)
(* format of nlj_orbital.cpp.                                              *)
(*                                                                         *)
(* Conventions.                                                            *)
(*   - A HalfInt is held as its twice value, as am/halfint.h does: the     *)
(*     field j of an orbital holds 2*j, HalfInt(1,2) is 1 and ++j adds 2.  *)
(*   - A double weight is held as a decimal fixed-point value              *)
(*     [int, frac]: the weight is int + frac * 10^-WeightFracDigits with   *)
(*     0 <= frac < WeightOne.                                              *)
(*   - std::map<Key,size_t> is a function from the set of stored keys.     *)
(*   - std::vector / std::string streams are sequences.                    *)
(***************************************************************************)
EXTENDS Integers, Sequences, FiniteSets, TLC

VARIABLES
    states,        \* the caller's flat orbital list (std::vector<OrbitalPNInfo>)
    call,          \* the operation performed last, with its arguments
    subspace_pn,   \* OrbitalSubspacePN object under construction / built
    subspace_ljpn, \* OrbitalSubspaceLJPN object
    space_pn,      \* OrbitalSpacePN object
    space_ljpn,    \* OrbitalSpaceLJPN object held by the caller (bra space)
    ket_space_ljpn,\* second OrbitalSpaceLJPN object held by the caller (ket space)
    sectors,       \* OrbitalSectorsLJPN object
    stream,        \* text produced by OrbitalDefinitionStr
    result,        \* value returned by the last query / parse
    two_body_subspace,    \* TwoBodySubspaceJJJPN object
    two_body_space,       \* TwoBodySpaceJJJPN object
    other_two_body_space, \* TwoBodySpaceJJJPN object built in the other ordering
    two_body_sectors,     \* TwoBodySectorsJJJPN object
    heap,          \* the vectors and maps that shared pointers point to
    handles,       \* BaseSpace objects: each holds two shared pointers
    base_sectors   \* BaseSectors object: the bra and ket spaces it stores

vars == <<states, call, subspace_pn, subspace_ljpn, space_pn, space_ljpn,
          ket_space_ljpn, sectors, stream, result,
          two_body_subspace, two_body_space, other_two_body_space,
          two_body_sectors, heap, handles, base_sectors>>

\* the space handles and what they point to
shared == <<heap, handles, base_sectors>>

\* the two-body objects
two_body == <<two_body_subspace, two_body_space, other_two_body_space,
              two_body_sectors>>

----------------------------------------------------------------------------
(* Bounds of the model *)

\* longest orbital list handed to a list-driven constructor or to the writer
MaxLen == 3
\* largest Nmax handed to a truncation-driven constructor
MaxNmax == 4
\* largest l0max handed to a constrained sector enumeration
MaxL0 == 1
\* longest orbital list whose written text is edited by hand before it is read
MaxEditLen == 2
\* largest Nmax of an orbital space two-body states are built over, which is
\* also the largest one-body cutoff N1max (N2max goes up to twice that)
MaxTwoBodyNmax == 2
\* largest J handed to the TwoBodySubspaceJJJPN constructor
MaxJ == 3
\* largest number of BaseSpace objects alive at once
MaxHandles == 3
\* largest number of subspaces pushed through the handles altogether
MaxPushes == 2
\* largest operator rank J0 handed to the TwoBodySectorsJJJPN constructor
MaxJ0 == 2
\* largest value taken for the maximum of J in a TwoBodySpaceJJJPN
MaxJmax == 5

----------------------------------------------------------------------------
(* Program constants *)

\* basis::kNone, std::numeric_limits<std::size_t>::max(); held as the value it
\* has after the conversion to int that its callers apply
kNone == -1
\* OrbitalSpeciesPN::kP, OrbitalSpeciesPN::kN as int(orbital_species)
kP == 0
kN == 1
\* const int precision = 8 (digits of a weight after the decimal point)
precision == 8
\* supported format version tag
kVersion == 15055
\* decimal digits kept in a modelled double weight
WeightFracDigits == 9

OrbitalSpeciesPN == {kP, kN}

RECURSIVE Pow10(_)
Pow10(k) == IF k <= 0 THEN 1 ELSE 10 * Pow10(k - 1)

WeightOne == Pow10(WeightFracDigits)

----------------------------------------------------------------------------
(* double arithmetic on weights *)

\* double(N) for an int N
Double(N) == [int |-> N, frac |-> 0]

\* a < b on doubles
WLess(a, b) == a.int < b.int \/ (a.int = b.int /\ a.frac < b.frac)

\* std::max(a, b): returns a unless a < b
WMax(a, b) == IF WLess(a, b) THEN b ELSE a

\* int(w): conversion of a double to int truncates toward zero
WInt(w) == IF w.int < 0 /\ w.frac > 0 THEN w.int + 1 ELSE w.int

----------------------------------------------------------------------------
(* Loops.  A loop of the code is a RECURSIVE operator whose first argument  *)
(* is the object under construction and whose other arguments are the loop *)
(* variables.  The exit test of a long loop reads the size of the object   *)
(* first (a test that always holds), so that the object is evaluated on    *)
(* every pass and not chained up until the loop ends.                      *)

----------------------------------------------------------------------------
(* Generic helpers for std::map and std::set *)

\* m[k] = v on a std::map: inserts k or overwrites its value
MapPut(m, k, v) == [x \in (DOMAIN m) \cup {k} |-> IF x = k THEN v ELSE m[x]]

EmptyMap == [x \in {} |-> 0]

\* operator< on std::tuple of ints: lexicographic
RECURSIVE TupleLess(_, _)
TupleLess(a, b) ==
    IF Len(a) = 0 \/ Len(b) = 0 THEN Len(a) < Len(b)
    ELSE IF a[1] < b[1] THEN TRUE
    ELSE IF b[1] < a[1] THEN FALSE
    ELSE TupleLess(Tail(a), Tail(b))

\* iteration order of a std::set of tuples: increasing by operator<
RECURSIVE SetInOrder(_)
SetInOrder(S) ==
    IF S = {} THEN <<>>
    ELSE LET least == CHOOSE x \in S : \A y \in S \ {x} : TupleLess(x, y)
         IN  <<least>> \o SetInOrder(S \ {least})

----------------------------------------------------------------------------
(* BaseSubspace *)

\* BaseSubspace(): dimension_(0), empty state table and lookup
BaseSubspace == [dimension_ |-> 0, state_table_ |-> <<>>, lookup_ |-> EmptyMap]

\* a buggy variant: the lookup entry is written after the dimension is advanced
PushStateLabels_OffByOne(subspace, state_labels) ==
    [subspace EXCEPT
        !.lookup_ = MapPut(@, state_labels, subspace.dimension_ + 1),
        !.state_table_ = Append(@, state_labels),
        !.dimension_ = @ + 1]

\* a buggy variant: labels that are already in the lookup keep their index
PushStateLabels_KeepFirst(subspace, state_labels) ==
    [subspace EXCEPT
        !.lookup_ = IF state_labels \in DOMAIN subspace.lookup_ THEN @
                    ELSE MapPut(@, state_labels, subspace.dimension_),
        !.state_table_ = Append(@, state_labels),
        !.dimension_ = @ + 1]

PushStateLabels(subspace, state_labels) ==
    [subspace EXCEPT
        !.lookup_ = MapPut(@, state_labels, subspace.dimension_),
        !.state_table_ = Append(@, state_labels),
        !.dimension_ = @ + 1]

\* indices are 0-based in the program, sequences 1-based in the model
GetStateLabels(subspace, index) == subspace.state_table_[index + 1]

ContainsState(subspace, state_labels) == state_labels \in DOMAIN subspace.lookup_

\* a buggy variant: a miss yields the value a default-inserted entry holds
LookUpStateIndex_DefaultValue(subspace, state_labels) ==
    IF state_labels \notin DOMAIN subspace.lookup_ THEN 0
    ELSE subspace.lookup_[state_labels]

LookUpStateIndex(subspace, state_labels) ==
    IF state_labels \notin DOMAIN subspace.lookup_ THEN kNone
    ELSE subspace.lookup_[state_labels]

size(subspace) == subspace.dimension_

----------------------------------------------------------------------------
(* BaseState: a view of a state, the subspace it lives in and its index.   *)
(* A failed assert ends the program; this is the outcome "assert".         *)

\* BaseState::ValidIndex: index() < subspace().size(), on unsigned values,
\* where kNone is the largest one
ValidIndex(subspace, index) == index # kNone /\ index < size(subspace)

\* BaseState(subspace, index)
BaseState_Index(subspace, index) ==
    IF ~ValidIndex(subspace, index) THEN [outcome |-> "assert"]
    ELSE [outcome |-> "return", index_ |-> index]

\* a buggy variant: the looked-up index is stored without the assertion
BaseState_Labels_Unchecked(subspace, state_labels) ==
    [outcome |-> "return", index_ |-> LookUpStateIndex(subspace, state_labels)]

\* BaseState(subspace, state_labels)
BaseState_Labels(subspace, state_labels) ==
    LET index_ == LookUpStateIndex(subspace, state_labels)
    IN  IF index_ = kNone THEN [outcome |-> "assert"]
        ELSE [outcome |-> "return", index_ |-> index_]

----------------------------------------------------------------------------
(* OrbitalPNInfo and flattened orbital lists *)

OrbitalPNInfo(orbital_species, n, l, j, weight) ==
    [orbital_species |-> orbital_species, n |-> n, l |-> l, j |-> j,
     weight |-> weight]

\* OrbitalPNInfo::operator== applied by std::vector's operator!=: two lists
\* are equal when they have the same length and equal records at every place
OrbitalInfoEqual(a, b) ==
    /\ Len(a) = Len(b)
    /\ \A k \in 1..Len(a) :
          /\ a[k].orbital_species = b[k].orbital_species
          /\ a[k].n = b[k].n
          /\ a[k].l = b[k].l
          /\ a[k].j = b[k].j
          /\ a[k].weight = b[k].weight

----------------------------------------------------------------------------
(* OrbitalSubspacePN: subspace labels <<species>>, state labels <<n,l,j>> *)

\* a buggy variant: the j loop stops at j < N + 1/2, one value short
RECURSIVE TruncationLoopPN_ShortShell(_, _, _, _)
TruncationLoopPN_ShortShell(subspace, N, j, Nmax) ==
    IF size(subspace) >= 0 /\ N > Nmax THEN subspace
    ELSE IF j > 2 * N THEN TruncationLoopPN_ShortShell(subspace, N + 1, 1, Nmax)
    ELSE LET l == (j - 1) \div 2 + ((N + (j - 1) \div 2) % 2)
             n == (N - l) \div 2
             pushed == PushStateLabels(subspace, <<n, l, j>>)
         IN  TruncationLoopPN_ShortShell(
                 [pushed EXCEPT !.weights_ = Append(@, Double(N))],
                 N, j + 2, Nmax)

\* for (N = 0; N <= Nmax; ++N) for (j = 1/2; j <= N + 1/2; ++j) { ... }
RECURSIVE TruncationLoopPN(_, _, _, _)
TruncationLoopPN(subspace, N, j, Nmax) ==
    IF size(subspace) >= 0 /\ N > Nmax THEN subspace
    ELSE IF j > 2 * N + 1 THEN TruncationLoopPN(subspace, N + 1, 1, Nmax)
    ELSE LET l == (j - 1) \div 2 + ((N + (j - 1) \div 2) % 2)
             n == (N - l) \div 2
             pushed == PushStateLabels(subspace, <<n, l, j>>)
         IN  TruncationLoopPN(
                 [pushed EXCEPT !.weights_ = Append(@, Double(N))],
                 N, j + 2, Nmax)

\* OrbitalSubspacePN::OrbitalSubspacePN(orbital_species, Nmax)
OrbitalSubspacePN_Nmax(orbital_species, Nmax) ==
    TruncationLoopPN(
        [labels_ |-> <<orbital_species>>,
         dimension_ |-> 0, state_table_ |-> <<>>, lookup_ |-> EmptyMap,
         weights_ |-> <<>>,
         weight_max_ |-> Double(Nmax),
         is_oscillator_like_ |-> TRUE,
         Nmax_ |-> Nmax],
        0, 1, Nmax)

\* a buggy variant: the weight of the state is not copied into the record
OrbitalStatePN_OrbitalInfo_NoWeight(subspace, index) ==
    LET labels == GetStateLabels(subspace, index)
    IN  OrbitalPNInfo(subspace.labels_[1], labels[1], labels[2], labels[3],
                      Double(0))

\* OrbitalStatePN::OrbitalInfo for the state at index
OrbitalStatePN_OrbitalInfo(subspace, index) ==
    LET labels == GetStateLabels(subspace, index)
    IN  OrbitalPNInfo(subspace.labels_[1], labels[1], labels[2], labels[3],
                      subspace.weights_[index + 1])

\* OrbitalSubspacePN::OrbitalInfo
OrbitalSubspacePN_OrbitalInfo(subspace) ==
    [k \in 1..size(subspace) |-> OrbitalStatePN_OrbitalInfo(subspace, k - 1)]

\* a buggy variant: only the size is compared with the reference subspace
IsOscillatorLike_SizeOnly(subspace) ==
    IF size(subspace) = 0 THEN FALSE
    ELSE LET Nmax == WInt(subspace.weight_max_)
         IN  IF Double(Nmax) # subspace.weight_max_ THEN FALSE
             ELSE IF Nmax < 0 THEN FALSE
             ELSE size(OrbitalSubspacePN_Nmax(subspace.labels_[1], Nmax))
                    = size(subspace)

\* OrbitalSubspacePN::IsOscillatorLike_
OrbitalSubspacePN_IsOscillatorLike_(subspace) ==
    IF size(subspace) = 0 THEN FALSE
    ELSE LET Nmax == WInt(subspace.weight_max_)
         IN  IF Double(Nmax) # subspace.weight_max_ THEN FALSE
             ELSE IF Nmax < 0 THEN FALSE
             ELSE LET reference_subspace ==
                          OrbitalSubspacePN_Nmax(subspace.labels_[1], Nmax)
                  IN  OrbitalInfoEqual(
                          OrbitalSubspacePN_OrbitalInfo(reference_subspace),
                          OrbitalSubspacePN_OrbitalInfo(subspace))

\* a buggy variant: the species test is dropped, every record is taken
RECURSIVE ListLoopPN_NoFilter(_, _, _)
ListLoopPN_NoFilter(subspace, list, k) ==
    IF k > Len(list) THEN subspace
    ELSE LET state == list[k]
             pushed == PushStateLabels(subspace, <<state.n, state.l, state.j>>)
         IN  ListLoopPN_NoFilter(
                 [pushed EXCEPT
                     !.weights_ = Append(@, state.weight),
                     !.weight_max_ = WMax(@, state.weight)],
                 list, k + 1)

\* for (state : states) if (state.orbital_species == orbital_species) { ... }
RECURSIVE ListLoopPN(_, _, _)
ListLoopPN(subspace, list, k) ==
    IF k > Len(list) THEN subspace
    ELSE LET state == list[k]
         IN  IF state.orbital_species = subspace.labels_[1]
             THEN LET pushed ==
                          PushStateLabels(subspace, <<state.n, state.l, state.j>>)
                  IN  ListLoopPN(
                          [pushed EXCEPT
                              !.weights_ = Append(@, state.weight),
                              !.weight_max_ = WMax(@, state.weight)],
                          list, k + 1)
             ELSE ListLoopPN(subspace, list, k + 1)

\* OrbitalSubspacePN::OrbitalSubspacePN(orbital_species, states)
OrbitalSubspacePN_List(orbital_species, list) ==
    LET filled ==
            ListLoopPN(
                [labels_ |-> <<orbital_species>>,
                 dimension_ |-> 0, state_table_ |-> <<>>, lookup_ |-> EmptyMap,
                 weights_ |-> <<>>,
                 weight_max_ |-> Double(0)],
                list, 1)
    IN  IF OrbitalSubspacePN_IsOscillatorLike_(filled)
        THEN [labels_ |-> filled.labels_,
              dimension_ |-> filled.dimension_,
              state_table_ |-> filled.state_table_,
              lookup_ |-> filled.lookup_,
              weights_ |-> filled.weights_,
              weight_max_ |-> filled.weight_max_,
              is_oscillator_like_ |-> TRUE,
              Nmax_ |-> WInt(filled.weight_max_)]
        ELSE [labels_ |-> filled.labels_,
              dimension_ |-> filled.dimension_,
              state_table_ |-> filled.state_table_,
              lookup_ |-> filled.lookup_,
              weights_ |-> filled.weights_,
              weight_max_ |-> filled.weight_max_,
              is_oscillator_like_ |-> FALSE,
              Nmax_ |-> -1]

----------------------------------------------------------------------------
(* OrbitalSubspaceLJPN: subspace labels <<species,l,j>>, state labels <<n>> *)

\* a buggy variant: the loop body runs once before the truncation is tested
TruncationLoopLJPN_BodyFirst(subspace, n, Nmax) ==
    LET l == subspace.labels_[2]
        pushed == PushStateLabels(subspace, <<n>>)
    IN  [pushed EXCEPT !.weights_ = Append(@, Double(2 * n + l))]

\* for (n = 0; (2*n+l) <= Nmax; ++n) { ... }
RECURSIVE TruncationLoopLJPN(_, _, _)
TruncationLoopLJPN(subspace, n, Nmax) ==
    LET l == subspace.labels_[2]
    IN  IF 2 * n + l > Nmax THEN subspace
        ELSE LET pushed == PushStateLabels(subspace, <<n>>)
             IN  TruncationLoopLJPN(
                     [pushed EXCEPT !.weights_ = Append(@, Double(2 * n + l))],
                     n + 1, Nmax)

\* OrbitalSubspaceLJPN::OrbitalSubspaceLJPN(orbital_species, l, j, Nmax)
OrbitalSubspaceLJPN_Nmax(orbital_species, l, j, Nmax) ==
    TruncationLoopLJPN(
        [labels_ |-> <<orbital_species, l, j>>,
         dimension_ |-> 0, state_table_ |-> <<>>, lookup_ |-> EmptyMap,
         weights_ |-> <<>>,
         weight_max_ |-> Double(Nmax),
         Nmax_ |-> Nmax],
        0, Nmax)

\* a buggy variant: the j test is dropped from the filter
RECURSIVE ListLoopLJPN_NoJ(_, _, _)
ListLoopLJPN_NoJ(subspace, list, k) ==
    IF k > Len(list) THEN subspace
    ELSE LET state == list[k]
         IN  IF /\ state.orbital_species = subspace.labels_[1]
                /\ state.l = subspace.labels_[2]
             THEN LET pushed == PushStateLabels(subspace, <<state.n>>)
                  IN  ListLoopLJPN_NoJ(
                          [pushed EXCEPT
                              !.weights_ = Append(@, state.weight),
                              !.weight_max_ = WMax(@, state.weight)],
                          list, k + 1)
             ELSE ListLoopLJPN_NoJ(subspace, list, k + 1)

\* for (state : states) if (species, l and j agree) { ... }
RECURSIVE ListLoopLJPN(_, _, _)
ListLoopLJPN(subspace, list, k) ==
    IF k > Len(list) THEN subspace
    ELSE LET state == list[k]
         IN  IF /\ state.orbital_species = subspace.labels_[1]
                /\ state.l = subspace.labels_[2]
                /\ state.j = subspace.labels_[3]
             THEN LET pushed == PushStateLabels(subspace, <<state.n>>)
                  IN  ListLoopLJPN(
                          [pushed EXCEPT
                              !.weights_ = Append(@, state.weight),
                              !.weight_max_ = WMax(@, state.weight)],
                          list, k + 1)
             ELSE ListLoopLJPN(subspace, list, k + 1)

\* OrbitalSubspaceLJPN::OrbitalSubspaceLJPN(orbital_species, l, j, states)
OrbitalSubspaceLJPN_List(orbital_species, l, j, list) ==
    ListLoopLJPN(
        [labels_ |-> <<orbital_species, l, j>>,
         dimension_ |-> 0, state_table_ |-> <<>>, lookup_ |-> EmptyMap,
         weights_ |-> <<>>,
         weight_max_ |-> Double(0),
         Nmax_ |-> -1],
        list, 1)

\* OrbitalStateLJPN::OrbitalInfo for the state at index
OrbitalStateLJPN_OrbitalInfo(subspace, index) ==
    OrbitalPNInfo(subspace.labels_[1], GetStateLabels(subspace, index)[1],
                  subspace.labels_[2], subspace.labels_[3],
                  subspace.weights_[index + 1])

\* OrbitalSubspaceLJPN::OrbitalInfo
OrbitalSubspaceLJPN_OrbitalInfo(subspace) ==
    [k \in 1..size(subspace) |-> OrbitalStateLJPN_OrbitalInfo(subspace, k - 1)]

----------------------------------------------------------------------------
(* BaseSpace *)

\* BaseSpace(): fresh empty subspace vector and lookup map
BaseSpace == [subspaces_ |-> <<>>, lookup_ |-> EmptyMap]

\* a buggy variant: the lookup entry is written after the push
PushSubspace_LateIndex(space, subspace) ==
    [space EXCEPT
        !.lookup_ = MapPut(@, subspace.labels_, Len(space.subspaces_) + 1),
        !.subspaces_ = Append(@, subspace)]

PushSubspace(space, subspace) ==
    [space EXCEPT
        !.lookup_ = MapPut(@, subspace.labels_, Len(space.subspaces_)),
        !.subspaces_ = Append(@, subspace)]

ContainsSubspace(space, subspace_labels) == subspace_labels \in DOMAIN space.lookup_

LookUpSubspaceIndex(space, subspace_labels) ==
    IF subspace_labels \notin DOMAIN space.lookup_ THEN kNone
    ELSE space.lookup_[subspace_labels]

\* BaseSpace::size
SpaceSize(space) == Len(space.subspaces_)

\* BaseSpace::LookUpSubspace: assert(subspace_index != kNone), then
\* subspaces_->at(subspace_index)
LookUpSubspace(space, subspace_labels) ==
    LET subspace_index == LookUpSubspaceIndex(space, subspace_labels)
    IN  IF subspace_index = kNone THEN [outcome |-> "assert"]
        ELSE [outcome |-> "return",
              subspace |-> space.subspaces_[subspace_index + 1]]

\* subspaces_->at(i) throws std::out_of_range unless i < size()
InRange(space, i) == 0 <= i /\ i < SpaceSize(space)

GetSubspace(space, i) == space.subspaces_[i + 1]

RECURSIVE DimensionLoop(_, _)
DimensionLoop(space, subspace_index) ==
    IF subspace_index >= SpaceSize(space) THEN 0
    ELSE size(GetSubspace(space, subspace_index))
           + DimensionLoop(space, subspace_index + 1)

\* BaseSpace::Dimension
Dimension(space) == DimensionLoop(space, 0)

----------------------------------------------------------------------------
(* BaseSpace as a handle.  The members subspaces_ and lookup_ are shared   *)
(* pointers; the vector and the map they point to live in the heap, and a  *)
(* pointer is the position of its target there.                            *)

\* what the member functions of a space read through its two pointers
Deref(heap_, space) ==
    [subspaces_ |-> heap_.vectors[space.subspaces_],
     lookup_ |-> heap_.maps[space.lookup_]]

\* BaseSpace(): make_shared of an empty vector and of an empty map
NewBaseSpace(heap_) ==
    [heap |-> [vectors |-> Append(heap_.vectors, <<>>),
               maps |-> Append(heap_.maps, EmptyMap)],
     space |-> [subspaces_ |-> Len(heap_.vectors) + 1,
                lookup_ |-> Len(heap_.maps) + 1]]

\* a buggy variant: the copy gets a vector and a map of its own
CopySpace_Deep(heap_, space) ==
    [heap |-> [vectors |-> Append(heap_.vectors, heap_.vectors[space.subspaces_]),
               maps |-> Append(heap_.maps, heap_.maps[space.lookup_])],
     space |-> [subspaces_ |-> Len(heap_.vectors) + 1,
                lookup_ |-> Len(heap_.maps) + 1]]

\* the implicit copy constructor of BaseSpace: the two pointers are copied
CopySpace(heap_, space) ==
    [heap |-> heap_, space |-> space]

\* PushSubspace called on a space: the vector and the map it points to change
PushSubspaceThrough(heap_, space, subspace) ==
    LET pushed == PushSubspace(Deref(heap_, space), subspace)
    IN  [vectors |-> [heap_.vectors EXCEPT ![space.subspaces_] = pushed.subspaces_],
         maps |-> [heap_.maps EXCEPT ![space.lookup_] = pushed.lookup_]]

\* BaseSectors(bra_space, ket_space): bra_space_(bra_space),
\* ket_space_(ket_space); BaseSectors(space) hands the same space twice
BaseSectors_Handles(heap_, bra_space, ket_space) ==
    LET bra == CopySpace(heap_, bra_space)
        ket == CopySpace(bra.heap, ket_space)
    IN  [heap |-> ket.heap, bra_space_ |-> bra.space, ket_space_ |-> ket.space]

----------------------------------------------------------------------------
(* OrbitalSpacePN *)

RECURSIVE SpeciesLoopPN(_, _, _)
SpeciesLoopPN(space, species_list, Nmax) ==
    IF species_list = <<>> THEN space
    ELSE SpeciesLoopPN(
             PushSubspace(space, OrbitalSubspacePN_Nmax(Head(species_list), Nmax)),
             Tail(species_list), Nmax)

\* a buggy variant: the species loop runs over the neutrons first
OrbitalSpacePN_Nmax_NeutronsFirst(Nmax) ==
    SpeciesLoopPN(
        [subspaces_ |-> <<>>, lookup_ |-> EmptyMap,
         weight_max_ |-> Double(Nmax),
         is_oscillator_like_ |-> TRUE,
         Nmax_ |-> Nmax],
        <<kN, kP>>, Nmax)

\* OrbitalSpacePN::OrbitalSpacePN(Nmax)
OrbitalSpacePN_Nmax(Nmax) ==
    SpeciesLoopPN(
        [subspaces_ |-> <<>>, lookup_ |-> EmptyMap,
         weight_max_ |-> Double(Nmax),
         is_oscillator_like_ |-> TRUE,
         Nmax_ |-> Nmax],
        <<kP, kN>>, Nmax)

\* a buggy variant: the subspaces' own oscillator flags are not consulted
OrbitalSpacePN_IsOscillatorLike_NoFlags(space) ==
    IF SpaceSize(space) < 1 THEN FALSE
    ELSE LET Nmax == GetSubspace(space, 0).Nmax_
         IN  IF \E subspace_index \in 1..(SpaceSize(space) - 1) :
                   GetSubspace(space, subspace_index).Nmax_ # Nmax
             THEN FALSE
             ELSE TRUE

\* OrbitalSpacePN::IsOscillatorLike_
OrbitalSpacePN_IsOscillatorLike_(space) ==
    IF SpaceSize(space) < 1 THEN FALSE
    ELSE IF \E subspace_index \in 0..(SpaceSize(space) - 1) :
              ~GetSubspace(space, subspace_index).is_oscillator_like_
         THEN FALSE
    ELSE LET Nmax == GetSubspace(space, 0).Nmax_
         IN  IF \E subspace_index \in 1..(SpaceSize(space) - 1) :
                   GetSubspace(space, subspace_index).Nmax_ # Nmax
             THEN FALSE
             ELSE TRUE

\* the label set collected from the list (std::set insert drops repeats)
SubspaceLabelsSetPN(list) == {<<list[k].orbital_species>> : k \in 1..Len(list)}

\* a buggy variant: labels are collected in a vector, one entry per record
SubspaceLabelsPN_PerRecord(list) ==
    [k \in 1..Len(list) |-> <<list[k].orbital_species>>]

\* the labels in the order the constructor visits them
SubspaceLabelsPN(list) == SetInOrder(SubspaceLabelsSetPN(list))

RECURSIVE LabelsLoopPN(_, _, _)
LabelsLoopPN(space, labels_list, list) ==
    IF labels_list = <<>> THEN space
    ELSE LET subspace == OrbitalSubspacePN_List(Head(labels_list)[1], list)
             pushed == PushSubspace(space, subspace)
         IN  LabelsLoopPN(
                 [pushed EXCEPT !.weight_max_ = WMax(@, subspace.weight_max_)],
                 Tail(labels_list), list)

\* OrbitalSpacePN::OrbitalSpacePN(states)
OrbitalSpacePN_List(list) ==
    LET filled ==
            LabelsLoopPN(
                [subspaces_ |-> <<>>, lookup_ |-> EmptyMap,
                 weight_max_ |-> Double(0)],
                SubspaceLabelsPN(list), list)
    IN  IF OrbitalSpacePN_IsOscillatorLike_(filled)
        THEN [subspaces_ |-> filled.subspaces_,
              lookup_ |-> filled.lookup_,
              weight_max_ |-> filled.weight_max_,
              is_oscillator_like_ |-> TRUE,
              Nmax_ |-> WInt(filled.weight_max_)]
        ELSE [subspaces_ |-> filled.subspaces_,
              lookup_ |-> filled.lookup_,
              weight_max_ |-> filled.weight_max_,
              is_oscillator_like_ |-> FALSE,
              Nmax_ |-> -1]

RECURSIVE FlattenLoopPN(_, _)
FlattenLoopPN(space, subspace_index) ==
    IF subspace_index >= SpaceSize(space) THEN <<>>
    ELSE OrbitalSubspacePN_OrbitalInfo(GetSubspace(space, subspace_index))
           \o FlattenLoopPN(space, subspace_index + 1)

\* OrbitalSpacePN::OrbitalInfo
OrbitalSpacePN_OrbitalInfo(space) == FlattenLoopPN(space, 0)

----------------------------------------------------------------------------
(* OrbitalSpaceLJPN *)

\* a buggy variant: the l loop stops at l < Nmax
RECURSIVE TruncationLoopSpaceLJPN_ShortL(_, _, _, _, _)
TruncationLoopSpaceLJPN_ShortL(space, species_list, l, j, Nmax) ==
    IF SpaceSize(space) >= 0 /\ species_list = <<>> THEN space
    ELSE IF l >= Nmax
         THEN TruncationLoopSpaceLJPN_ShortL(space, Tail(species_list), 0, -1, Nmax)
    ELSE IF j > 2 * l + 1
         THEN TruncationLoopSpaceLJPN_ShortL(space, species_list, l + 1, 2 * l + 1, Nmax)
    ELSE IF j < 0
         THEN TruncationLoopSpaceLJPN_ShortL(space, species_list, l, j + 2, Nmax)
    ELSE TruncationLoopSpaceLJPN_ShortL(
             PushSubspace(space,
                 OrbitalSubspaceLJPN_Nmax(Head(species_list), l, j, Nmax)),
             species_list, l, j + 2, Nmax)

\* for (species : {kP,kN}) for (l = 0; l <= Nmax; ++l)
\*   for (j = l - 1/2; j <= l + 1/2; ++j) { if (j < 0) continue; ... }
RECURSIVE TruncationLoopSpaceLJPN(_, _, _, _, _)
TruncationLoopSpaceLJPN(space, species_list, l, j, Nmax) ==
    IF SpaceSize(space) >= 0 /\ species_list = <<>> THEN space
    ELSE IF l > Nmax
         THEN TruncationLoopSpaceLJPN(space, Tail(species_list), 0, -1, Nmax)
    ELSE IF j > 2 * l + 1
         THEN TruncationLoopSpaceLJPN(space, species_list, l + 1, 2 * l + 1, Nmax)
    ELSE IF j < 0
         THEN TruncationLoopSpaceLJPN(space, species_list, l, j + 2, Nmax)
    ELSE TruncationLoopSpaceLJPN(
             PushSubspace(space,
                 OrbitalSubspaceLJPN_Nmax(Head(species_list), l, j, Nmax)),
             species_list, l, j + 2, Nmax)

\* OrbitalSpaceLJPN::OrbitalSpaceLJPN(Nmax)
OrbitalSpaceLJPN_Nmax(Nmax) ==
    TruncationLoopSpaceLJPN(
        [subspaces_ |-> <<>>, lookup_ |-> EmptyMap,
         weight_max_ |-> Double(Nmax),
         Nmax_ |-> Nmax],
        <<kP, kN>>, 0, -1, Nmax)

SubspaceLabelsSetLJPN(list) ==
    {<<list[k].orbital_species, list[k].l, list[k].j>> : k \in 1..Len(list)}

SubspaceLabelsLJPN(list) == SetInOrder(SubspaceLabelsSetLJPN(list))

RECURSIVE LabelsLoopLJPN(_, _, _)
LabelsLoopLJPN(space, labels_list, list) ==
    IF labels_list = <<>> THEN space
    ELSE LET labels == Head(labels_list)
             subspace ==
                 OrbitalSubspaceLJPN_List(labels[1], labels[2], labels[3], list)
             pushed == PushSubspace(space, subspace)
         IN  LabelsLoopLJPN(
                 [pushed EXCEPT !.weight_max_ = WMax(@, subspace.weight_max_)],
                 Tail(labels_list), list)

\* OrbitalSpaceLJPN::OrbitalSpaceLJPN(states)
OrbitalSpaceLJPN_List(list) ==
    LabelsLoopLJPN(
        [subspaces_ |-> <<>>, lookup_ |-> EmptyMap,
         weight_max_ |-> Double(0),
         Nmax_ |-> -1],
        SubspaceLabelsLJPN(list), list)

RECURSIVE FlattenLoopLJPN(_, _)
FlattenLoopLJPN(space, subspace_index) ==
    IF subspace_index >= SpaceSize(space) THEN <<>>
    ELSE OrbitalSubspaceLJPN_OrbitalInfo(GetSubspace(space, subspace_index))
           \o FlattenLoopLJPN(space, subspace_index + 1)

\* OrbitalSpaceLJPN::OrbitalInfo
OrbitalSpaceLJPN_OrbitalInfo(space) == FlattenLoopLJPN(space, 0)

----------------------------------------------------------------------------
(* BaseSector and BaseSectors *)

Abs(x) == IF x < 0 THEN -x ELSE x

\* kOrbitalSpeciesPNCodeTz = {+1/2, -1/2}, as twice values
kOrbitalSpeciesPNCodeTz == <<1, -1>>

\* accessors of OrbitalSubspaceLJPN
SubspaceL(subspace) == subspace.labels_[2]
SubspaceJ(subspace) == subspace.labels_[3]
SubspaceG(subspace) == subspace.labels_[2] % 2
SubspaceTz(subspace) == kOrbitalSpeciesPNCodeTz[subspace.labels_[1] + 1]

\* BaseSector(bra_subspace_index, ket_subspace_index, bra_subspace,
\*            ket_subspace, multiplicity_index = 1)
BaseSector(bra_subspace_index, ket_subspace_index, bra_subspace, ket_subspace, multiplicity_index) ==
    [bra_subspace_index_ |-> bra_subspace_index,
     ket_subspace_index_ |-> ket_subspace_index,
     bra_subspace |-> bra_subspace,
     ket_subspace |-> ket_subspace,
     multiplicity_index_ |-> multiplicity_index]

\* BaseSector::IsUpperTriangle (includes the diagonal)
IsUpperTriangle(sector) ==
    sector.bra_subspace_index_ <= sector.ket_subspace_index_

\* BaseSector::Key
Key(sector) ==
    <<sector.bra_subspace_index_, sector.ket_subspace_index_,
      sector.multiplicity_index_>>

\* BaseSectors() = default: the stored bra and ket spaces are
\* default-constructed, empty spaces
BaseSectors ==
    [bra_space_ |-> BaseSpace, ket_space_ |-> BaseSpace,
     keys_ |-> <<>>, lookup_ |-> EmptyMap]

\* BaseSectors(space) and BaseSectors(bra_space, ket_space): the handed
\* spaces are copied into the object
BaseSectors_Spaces(bra_space, ket_space) ==
    [bra_space_ |-> bra_space, ket_space_ |-> ket_space,
     keys_ |-> <<>>, lookup_ |-> EmptyMap]

\* a buggy variant: the key is stored but the lookup entry is not written
PushSector_NoLookup(sectors_, key) ==
    [sectors_ EXCEPT !.keys_ = Append(@, key)]

\* BaseSectors::PushSector(key)
PushSector(sectors_, key) ==
    [sectors_ EXCEPT
        !.lookup_ = MapPut(@, key, Len(sectors_.keys_)),
        !.keys_ = Append(@, key)]

\* BaseSectors::size
SectorsSize(sectors_) == Len(sectors_.keys_)

\* BaseSectors::GetSector: keys_.at and GetSubspace (vector::at) throw
\* std::out_of_range on an index that is not in range
GetSector(sectors_, sector_index) ==
    IF ~(0 <= sector_index /\ sector_index < SectorsSize(sectors_))
    THEN [thrown |-> TRUE]
    ELSE LET key == sectors_.keys_[sector_index + 1]
         IN  IF ~InRange(sectors_.bra_space_, key[1])
                  \/ ~InRange(sectors_.ket_space_, key[2])
             THEN [thrown |-> TRUE]
             ELSE [thrown |-> FALSE,
                   sector |-> BaseSector(key[1], key[2],
                                 GetSubspace(sectors_.bra_space_, key[1]),
                                 GetSubspace(sectors_.ket_space_, key[2]),
                                 key[3])]

\* BaseSectors::ContainsSector(bra, ket, multiplicity_index = 1)
ContainsSector(sectors_, bra_subspace_index, ket_subspace_index, multiplicity_index) ==
    <<bra_subspace_index, ket_subspace_index, multiplicity_index>>
        \in DOMAIN sectors_.lookup_

\* BaseSectors::LookUpSectorIndex(key)
LookUpSectorIndex(sectors_, key) ==
    IF key \notin DOMAIN sectors_.lookup_ THEN kNone
    ELSE sectors_.lookup_[key]

----------------------------------------------------------------------------
(* OrbitalSectorsLJPN: the four constructors.  None of them names a base   *)
(* class initializer, so each starts from BaseSectors().                   *)

\* SectorDirection
kCanonical == "kCanonical"
kBoth == "kBoth"
SectorDirection == {kCanonical, kBoth}


\* a buggy variant: the canonical direction also skips the diagonal
RECURSIVE AllToAllKetLoop_StrictTriangle(_, _, _, _, _)
AllToAllKetLoop_StrictTriangle(sectors_, space, sector_direction, bra_subspace_index, ket_subspace_index) ==
    IF SectorsSize(sectors_) >= 0
         /\ ket_subspace_index >= SpaceSize(space) THEN sectors_
    ELSE IF sector_direction = kCanonical
              /\ bra_subspace_index >= ket_subspace_index
         THEN AllToAllKetLoop_StrictTriangle(sectors_, space, sector_direction,
                              bra_subspace_index, ket_subspace_index + 1)
    ELSE AllToAllKetLoop_StrictTriangle(
             PushSector(sectors_,
                 Key(BaseSector(bra_subspace_index, ket_subspace_index,
                                GetSubspace(space, bra_subspace_index),
                                GetSubspace(space, ket_subspace_index), 1))),
             space, sector_direction, bra_subspace_index,
             ket_subspace_index + 1)

\* inner loop of the all-to-all enumeration over one space
RECURSIVE AllToAllKetLoop(_, _, _, _, _)
AllToAllKetLoop(sectors_, space, sector_direction, bra_subspace_index, ket_subspace_index) ==
    IF SectorsSize(sectors_) >= 0
         /\ ket_subspace_index >= SpaceSize(space) THEN sectors_
    ELSE IF sector_direction = kCanonical
              /\ bra_subspace_index > ket_subspace_index
         THEN AllToAllKetLoop(sectors_, space, sector_direction,
                              bra_subspace_index, ket_subspace_index + 1)
    ELSE AllToAllKetLoop(
             PushSector(sectors_,
                 Key(BaseSector(bra_subspace_index, ket_subspace_index,
                                GetSubspace(space, bra_subspace_index),
                                GetSubspace(space, ket_subspace_index), 1))),
             space, sector_direction, bra_subspace_index,
             ket_subspace_index + 1)

\* outer loop of the all-to-all enumeration over one space
RECURSIVE AllToAllBraLoop(_, _, _, _)
AllToAllBraLoop(sectors_, space, sector_direction, bra_subspace_index) ==
    IF SectorsSize(sectors_) >= 0
         /\ bra_subspace_index >= SpaceSize(space) THEN sectors_
    ELSE AllToAllBraLoop(
             AllToAllKetLoop(sectors_, space, sector_direction,
                             bra_subspace_index, 0),
             space, sector_direction, bra_subspace_index + 1)

\* OrbitalSectorsLJPN(space, sector_direction)
OrbitalSectorsLJPN_AllToAll(space, sector_direction) ==
    AllToAllBraLoop(BaseSectors, space, sector_direction, 0)

\* inner loop of the constrained enumeration over one space
RECURSIVE ConstrainedKetLoop(_, _, _, _, _, _)
ConstrainedKetLoop(sectors_, space, l0max, sector_direction, bra_subspace_index, ket_subspace_index) ==
    IF SectorsSize(sectors_) >= 0
         /\ ket_subspace_index >= SpaceSize(space) THEN sectors_
    ELSE IF sector_direction = kCanonical
              /\ bra_subspace_index > ket_subspace_index
         THEN ConstrainedKetLoop(sectors_, space, l0max, sector_direction,
                                 bra_subspace_index, ket_subspace_index + 1)
    ELSE LET g0 == l0max % 2
             bra_subspace == GetSubspace(space, bra_subspace_index)
             ket_subspace == GetSubspace(space, ket_subspace_index)
             allowed ==
                 /\ Abs(SubspaceL(bra_subspace) - SubspaceL(ket_subspace)) <= l0max
                 /\ Abs(SubspaceJ(bra_subspace) - SubspaceJ(ket_subspace))
                      <= 2 * l0max
                 /\ (SubspaceG(ket_subspace) + g0 + SubspaceG(bra_subspace)) % 2 = 0
         IN  ConstrainedKetLoop(
                 IF allowed
                 THEN PushSector(sectors_,
                          Key(BaseSector(bra_subspace_index, ket_subspace_index,
                                         bra_subspace, ket_subspace, 1)))
                 ELSE sectors_,
                 space, l0max, sector_direction, bra_subspace_index,
                 ket_subspace_index + 1)

\* outer loop of the constrained enumeration over one space
RECURSIVE ConstrainedBraLoop(_, _, _, _, _)
ConstrainedBraLoop(sectors_, space, l0max, sector_direction, bra_subspace_index) ==
    IF SectorsSize(sectors_) >= 0
         /\ bra_subspace_index >= SpaceSize(space) THEN sectors_
    ELSE ConstrainedBraLoop(
             ConstrainedKetLoop(sectors_, space, l0max, sector_direction,
                                bra_subspace_index, 0),
             space, l0max, sector_direction, bra_subspace_index + 1)

\* OrbitalSectorsLJPN(space, l0max, Tz0, sector_direction)
OrbitalSectorsLJPN_Constrained(space, l0max, Tz0, sector_direction) ==
    LET built == ConstrainedBraLoop(BaseSectors, space, l0max, sector_direction, 0)
    IN  [bra_space_ |-> built.bra_space_, ket_space_ |-> built.ket_space_,
         keys_ |-> built.keys_, lookup_ |-> built.lookup_,
         l0max_ |-> l0max, Tz0_ |-> Tz0]

\* inner loop of the all-to-all enumeration between two spaces
RECURSIVE AllToAllKetLoop2(_, _, _, _, _)
AllToAllKetLoop2(sectors_, bra_space, ket_space, bra_subspace_index, ket_subspace_index) ==
    IF SectorsSize(sectors_) >= 0
         /\ ket_subspace_index >= SpaceSize(ket_space) THEN sectors_
    ELSE AllToAllKetLoop2(
             PushSector(sectors_,
                 Key(BaseSector(bra_subspace_index, ket_subspace_index,
                                GetSubspace(bra_space, bra_subspace_index),
                                GetSubspace(ket_space, ket_subspace_index), 1))),
             bra_space, ket_space, bra_subspace_index, ket_subspace_index + 1)

\* outer loop of the all-to-all enumeration between two spaces
RECURSIVE AllToAllBraLoop2(_, _, _, _)
AllToAllBraLoop2(sectors_, bra_space, ket_space, bra_subspace_index) ==
    IF SectorsSize(sectors_) >= 0
         /\ bra_subspace_index >= SpaceSize(bra_space) THEN sectors_
    ELSE AllToAllBraLoop2(
             AllToAllKetLoop2(sectors_, bra_space, ket_space,
                              bra_subspace_index, 0),
             bra_space, ket_space, bra_subspace_index + 1)

\* OrbitalSectorsLJPN(bra_space, ket_space)
OrbitalSectorsLJPN_AllToAll2(bra_space, ket_space) ==
    AllToAllBraLoop2(BaseSectors, bra_space, ket_space, 0)

\* inner loop of the constrained enumeration between two spaces
RECURSIVE ConstrainedKetLoop2(_, _, _, _, _, _, _)
ConstrainedKetLoop2(sectors_, bra_space, ket_space, l0max, Tz0, bra_subspace_index, ket_subspace_index) ==
    IF SectorsSize(sectors_) >= 0
         /\ ket_subspace_index >= SpaceSize(ket_space) THEN sectors_
    ELSE LET g0 == l0max % 2
             bra_subspace == GetSubspace(bra_space, bra_subspace_index)
             ket_subspace == GetSubspace(ket_space, ket_subspace_index)
             allowed ==
                 /\ Abs(SubspaceL(bra_subspace) - SubspaceL(ket_subspace)) <= l0max
                 /\ Abs(SubspaceJ(bra_subspace) - SubspaceJ(ket_subspace))
                      <= 2 * l0max
                 /\ Abs(SubspaceTz(bra_subspace) - SubspaceTz(ket_subspace))
                      <= 2 * Tz0
                 /\ (SubspaceG(ket_subspace) + g0 + SubspaceG(bra_subspace)) % 2 = 0
         IN  ConstrainedKetLoop2(
                 IF allowed
                 THEN PushSector(sectors_,
                          Key(BaseSector(bra_subspace_index, ket_subspace_index,
                                         bra_subspace, ket_subspace, 1)))
                 ELSE sectors_,
                 bra_space, ket_space, l0max, Tz0, bra_subspace_index,
                 ket_subspace_index + 1)

\* outer loop of the constrained enumeration between two spaces
RECURSIVE ConstrainedBraLoop2(_, _, _, _, _, _)
ConstrainedBraLoop2(sectors_, bra_space, ket_space, l0max, Tz0, bra_subspace_index) ==
    IF SectorsSize(sectors_) >= 0
         /\ bra_subspace_index >= SpaceSize(bra_space) THEN sectors_
    ELSE ConstrainedBraLoop2(
             ConstrainedKetLoop2(sectors_, bra_space, ket_space, l0max, Tz0,
                                 bra_subspace_index, 0),
             bra_space, ket_space, l0max, Tz0, bra_subspace_index + 1)

\* OrbitalSectorsLJPN(bra_space, ket_space, l0max, Tz0)
OrbitalSectorsLJPN_Constrained2(bra_space, ket_space, l0max, Tz0) ==
    LET built == ConstrainedBraLoop2(BaseSectors, bra_space, ket_space, l0max,
                                     Tz0, 0)
    IN  [bra_space_ |-> built.bra_space_, ket_space_ |-> built.ket_space_,
         keys_ |-> built.keys_, lookup_ |-> built.lookup_,
         l0max_ |-> l0max, Tz0_ |-> Tz0]

----------------------------------------------------------------------------
(* Orbital definition text.  A stream is a sequence of lines; a line is    *)
(* the sequence of its pieces in reading order (an empty line is <<>>).    *)
(* The pieces are the whitespace-separated fields of the line, and before  *)
(* them a BlankToken when the line starts with whitespace; the widths of   *)
(* the runs of whitespace and whitespace at the end of a line are not      *)
(* held.  A field is an integer numeral, a decimal numeral with            *)
(* `precision` digits after the point, a numeral directly followed by      *)
(* text that continues no numeral (as in 1x), or a word; a '#' is always   *)
(* a word of its own.  No numeral has an exponent: an e or E behind a      *)
(* numeral starts text that is no exponent.  A decimal numeral is held by  *)
(* its value, as the floor `int` and the `digits` of the fraction above    *)
(* the floor: -2.50000000 is FixedToken(-3, 50000000), and 0.00000000 and  *)
(* -0.00000000 are both FixedToken(0, 0).  A FractionToken is what is left *)
(* of a decimal numeral in a stream once its integer part has been read.   *)
(* Every line of a text ends with a newline, as the writer ends each with  *)
(* std::endl: std::getline past the last line fails and leaves `line`      *)
(* empty.                                                                  *)

IntToken(value) == [kind |-> "int", value |-> value]
FixedToken(int, digits) == [kind |-> "fixed", int |-> int, digits |-> digits]
WordToken(text) == [kind |-> "word", text |-> text]
BlankToken == [kind |-> "blank"]
FractionToken(digits) == [kind |-> "fraction", digits |-> digits]
SuffixedToken(numeral, text) ==
    [kind |-> "suffixed", numeral |-> numeral, text |-> text]

\* a line that starts with '#'
CommentLine(text) == <<WordToken("#"), WordToken(text)>>

\* position of the leading one bit of n >= 1
RECURSIVE Log2(_)
Log2(n) == IF n < 2 THEN 0 ELSE 1 + Log2(n \div 2)

\* number of doublings that bring a fraction 0 < frac < 1 to 1 or above
RECURSIVE LeadingShift(_)
LeadingShift(frac) ==
    IF frac >= WeightOne THEN 0 ELSE 1 + LeadingShift(2 * frac)

\* the fraction `rest` shifted left by `shifts` binary places: what is
\* left below the point, and the bits that moved above it as the number
\* `whole`, of which the lowest 30 bits are kept
RECURSIVE ShiftFraction(_, _, _)
ShiftFraction(rest, whole, shifts) ==
    IF shifts = 0 \/ rest + whole = 0 THEN [rest |-> rest, whole |-> whole]
    ELSE IF rest = 0
    THEN [rest |-> 0,
          whole |-> IF shifts >= 30 THEN 0
                    ELSE (whole % 2^(30 - shifts)) * 2^shifts]
    ELSE ShiftFraction((2 * rest) % WeightOne,
                       (2 * whole + (2 * rest) \div WeightOne) % 2^30,
                       shifts - 1)

\* the double that holds a weight >= 0 with a fraction: the double keeps 53
\* significant bits, so `shifts` bits below the binary point, rounded to
\* nearest, ties to the even mantissa.  `fraction` is the part of the
\* double below the point in units of 2^-shifts (its lowest 30 bits) and
\* `error` the sign of (the double) - (the decimal value of the weight).
NearestDouble(weight) ==
    LET shifts == IF weight.int >= 1 THEN 52 - Log2(weight.int)
                  ELSE 52 + LeadingShift(weight.frac)
        Nearest(cut) ==
            LET up == IF 2 * cut.rest > WeightOne THEN TRUE
                      ELSE IF 2 * cut.rest < WeightOne THEN FALSE
                      ELSE cut.whole % 2 = 1
            IN  [shifts |-> shifts,
                 fraction |-> IF up THEN cut.whole + 1 ELSE cut.whole,
                 error |-> IF cut.rest = 0 THEN 0 ELSE IF up THEN 1 ELSE -1]
    IN  Nearest(ShiftFraction(weight.frac, 0, shifts))

\* std::fixed << std::setprecision(precision) on a weight >= 0: the integer
\* part and the `precision` digits printed, which are the exact value of
\* the double rounded to `precision` digits, a tie going to the even last
\* digit.  A double with 30 or more bits below the point lies less than
\* half a unit of the weight's last digit from the decimal value, so it
\* rounds as the decimal digits do, and on a dropped digit 5 as its error
\* says; a double with fewer bits is rounded from its binary fraction.
FormatMagnitude(weight) ==
    LET unit == Pow10(WeightFracDigits - precision)
        kept == weight.frac \div unit
        dropped == weight.frac % unit
        half == precision \div 2
        \* the digits of a double with 30 or more bits below the point
        Decimal(double) ==
            IF 2 * dropped > unit THEN kept + 1
            ELSE IF 2 * dropped < unit THEN kept
            ELSE IF double.error > 0 THEN kept + 1
            ELSE IF double.error < 0 THEN kept
            ELSE kept + (kept % 2)
        \* quotient + remainder / scale
        \*     = double.fraction * 10^precision / 2^double.shifts, with
        \* 10^precision = 2^precision * 5^half * 5^half
        Nearest(quotient, remainder, scale) ==
            IF 2 * remainder > scale THEN quotient + 1
            ELSE IF 2 * remainder < scale THEN quotient
            ELSE quotient + (quotient % 2)
        Second(high, second, scale) ==
            Nearest(high + second \div scale, second % scale, scale)
        First(high, first, scale) ==
            Second(high + (first \div scale) * 5^half,
                   (first % scale) * 5^half, scale)
        Binary(double, scale) ==
            First((double.fraction \div scale) * 5^precision,
                  (double.fraction % scale) * 5^half, scale)
        Digits(double) ==
            IF double.shifts >= 30 THEN Decimal(double)
            ELSE Binary(double, 2^(double.shifts - precision))
        Printed(digits) ==
            IF digits = Pow10(precision)
            THEN [int |-> weight.int + 1, digits |-> 0]
            ELSE [int |-> weight.int, digits |-> digits]
    IN  IF weight.frac = 0 THEN [int |-> weight.int, digits |-> 0]
        ELSE Printed(Digits(NearestDouble(weight)))

\* out << std::fixed << std::setprecision(precision) << weight: the
\* magnitude of the weight is rounded and the sign put in front of it
FormatWeight(weight) ==
    LET magnitude ==
            IF weight.int >= 0 THEN weight
            ELSE IF weight.frac = 0 THEN [int |-> -weight.int, frac |-> 0]
            ELSE [int |-> -weight.int - 1, frac |-> WeightOne - weight.frac]
        Signed(printed) ==
            IF weight.int >= 0 THEN FixedToken(printed.int, printed.digits)
            ELSE IF printed.digits = 0 THEN FixedToken(-printed.int, 0)
            ELSE FixedToken(-printed.int - 1,
                            Pow10(precision) - printed.digits)
    IN  Signed(FormatMagnitude(magnitude))

\* a buggy variant: the species is written 0-based
FormatOrbital_ZeroBased(orbital_info) ==
    <<IntToken(orbital_info.n),
      IntToken(orbital_info.l),
      IntToken(orbital_info.j),
      IntToken(orbital_info.orbital_species),
      FormatWeight(orbital_info.weight)>>

\* operator<<(std::ostream&, const OrbitalPNInfo&): n, l, twice j, 1-based
\* species, weight, each behind a blank
FormatOrbital(orbital_info) ==
    <<IntToken(orbital_info.n),
      IntToken(orbital_info.l),
      IntToken(orbital_info.j),
      IntToken(orbital_info.orbital_species + 1),
      FormatWeight(orbital_info.weight)>>

\* body << " " << std::setw(width) << output_index << state << std::endl:
\* the line starts with a blank
BodyLine(output_index, state) ==
    <<BlankToken, IntToken(output_index)>> \o FormatOrbital(state)

\* a buggy variant: one running index is shared by the two species
RECURSIVE BodyLoop_SharedIndex(_, _, _, _, _, _)
BodyLoop_SharedIndex(body, orbitals, k, p_index, n_index, output_index) ==
    IF k > Len(orbitals)
    THEN [body |-> body, p_index |-> p_index, n_index |-> n_index]
    ELSE LET state == orbitals[k]
             p_next == IF state.orbital_species = kP THEN p_index + 1 ELSE p_index
             n_next == IF state.orbital_species = kN THEN n_index + 1 ELSE n_index
         IN  BodyLoop_SharedIndex(
                 Append(body, BodyLine(output_index + 1, state)),
                 orbitals, k + 1, p_next, n_next, output_index + 1)

\* the body loop of OrbitalDefinitionStr: running p_index, n_index and
\* output_index, one line per orbital
RECURSIVE BodyLoop(_, _, _, _, _, _)
BodyLoop(body, orbitals, k, p_index, n_index, output_index) ==
    IF k > Len(orbitals)
    THEN [body |-> body, p_index |-> p_index, n_index |-> n_index]
    ELSE LET state == orbitals[k]
             p_next == IF state.orbital_species = kP THEN p_index + 1 ELSE p_index
             n_next == IF state.orbital_species = kP THEN n_index
                       ELSE IF state.orbital_species = kN THEN n_index + 1
                       ELSE n_index
             out_next == IF state.orbital_species = kP THEN p_next
                         ELSE IF state.orbital_species = kN THEN n_next
                         ELSE output_index
         IN  BodyLoop(
                 Append(body, BodyLine(out_next, state)),
                 orbitals, k + 1, p_next, n_next, out_next)

\* OrbitalDefinitionStr(orbitals, standalone)
OrbitalDefinitionStr(orbitals, standalone) ==
    LET built == BodyLoop(<<>>, orbitals, 1, 0, 0, 0)
        header ==
            IF standalone
            THEN <<CommentLine("MFDn SPorbital file"),
                   CommentLine("version"),
                   CommentLine("norb_p norb_n"),
                   CommentLine("index n l 2*j species weight"),
                   <<IntToken(kVersion)>>,
                   <<IntToken(built.p_index), IntToken(built.n_index)>>>>
            ELSE <<>>
    IN  header \o built.body

\* line[0]=='#': the first character of the line, a blank before the '#'
\* counted
IsComment(line) == line # <<>> /\ line[1] = WordToken("#")

\* std::istringstream line_stream(line): the pieces not yet read and the
\* fail state
LineStream(line) == [fail |-> FALSE, rest |-> line]

\* a formatted extraction first skips whitespace
SkipWhitespace(rest) ==
    IF rest # <<>> /\ rest[1].kind = "blank" THEN Tail(rest) ELSE rest

\* the stream after an extraction that found nothing to read
Failed(in) == [fail |-> TRUE, rest |-> in.rest]

\* in >> value for an int: reads the longest integer numeral at the head of
\* the stream and stops at the first character that continues none, which
\* stays in the stream; fails when there is no such numeral.  Of a decimal
\* numeral it reads the digits in front of the point, which of a negative
\* one with a fraction is the integer above its floor, and leaves the
\* point and the digits behind it.  Nothing is read from a stream that has
\* failed.
ExtractInt(in) ==
    LET rest == SkipWhitespace(in.rest)
        numeral == IF rest[1].kind = "suffixed" THEN rest[1].numeral
                   ELSE rest[1]
        below == numeral.kind = "fixed" /\ numeral.int < 0 /\ numeral.digits > 0
        fraction == FractionToken(IF below
                                  THEN Pow10(precision) - numeral.digits
                                  ELSE numeral.digits)
    IN  IF in.fail THEN [in |-> in, value |-> 0]
        ELSE IF rest = <<>> THEN [in |-> Failed(in), value |-> 0]
        ELSE IF rest[1].kind = "int"
        THEN [in |-> [fail |-> FALSE, rest |-> Tail(rest)],
              value |-> rest[1].value]
        ELSE IF rest[1].kind = "fixed"
        THEN [in |-> [fail |-> FALSE, rest |-> <<fraction>> \o Tail(rest)],
              value |-> IF below THEN numeral.int + 1 ELSE numeral.int]
        ELSE IF rest[1].kind = "suffixed" /\ numeral.kind = "int"
        THEN [in |-> [fail |-> FALSE,
                      rest |-> <<WordToken(rest[1].text)>> \o Tail(rest)],
              value |-> numeral.value]
        ELSE IF rest[1].kind = "suffixed" /\ numeral.kind = "fixed"
        THEN [in |-> [fail |-> FALSE,
                      rest |-> <<SuffixedToken(fraction, rest[1].text)>>
                                 \o Tail(rest)],
              value |-> IF below THEN numeral.int + 1 ELSE numeral.int]
        ELSE [in |-> Failed(in), value |-> 0]

\* the double read from a numeral: an integer, a decimal, or a point and
\* digits
ParseDouble(token) ==
    IF token.kind = "int" THEN Double(token.value)
    ELSE IF token.kind = "fixed"
    THEN [int |-> token.int,
          frac |-> token.digits * Pow10(WeightFracDigits - precision)]
    ELSE [int |-> 0,
          frac |-> token.digits * Pow10(WeightFracDigits - precision)]

\* in >> value for a double: reads the longest numeral at the head of the
\* stream and stops at the first character that continues none; fails when
\* there is no such numeral.  An e or E behind the digits is read as the
\* start of an exponent, and as no exponent follows the extraction fails.
ExtractDouble(in) ==
    LET rest == SkipWhitespace(in.rest)
        numerals == {"int", "fixed", "fraction"}
    IN  IF in.fail THEN [in |-> in, value |-> Double(0)]
        ELSE IF rest = <<>> THEN [in |-> Failed(in), value |-> Double(0)]
        ELSE IF rest[1].kind \in numerals
        THEN [in |-> [fail |-> FALSE, rest |-> Tail(rest)],
              value |-> ParseDouble(rest[1])]
        ELSE IF rest[1].kind = "suffixed"
                  /\ SubSeq(rest[1].text, 1, 1) \notin {"e", "E"}
        THEN [in |-> [fail |-> FALSE,
                      rest |-> <<WordToken(rest[1].text)>> \o Tail(rest)],
              value |-> ParseDouble(rest[1].numeral)]
        ELSE [in |-> Failed(in), value |-> Double(0)]

\* operator>>(std::istream&, OrbitalPNInfo&): n, l, twice j, the 1-based
\* species and the weight are read one after the other; on a failed stream
\* the record is left alone
ParseOrbital(in) ==
    LET n == ExtractInt(in)
        l == ExtractInt(n.in)
        twice_j == ExtractInt(l.in)
        orbital_species_raw == ExtractInt(twice_j.in)
        weight == ExtractDouble(orbital_species_raw.in)
    IN  IF weight.in.fail THEN [in |-> weight.in]
        ELSE [in |-> weight.in,
              orbital_info |->
                  OrbitalPNInfo(orbital_species_raw.value - 1, n.value, l.value,
                                twice_j.value, weight.value)]

\* outcome of ParsingCheck on a failed line stream: the message carries the
\* line count and the line, and the program ends
ParsingError(line_count, line) ==
    [status |-> "parsing_error", line_count |-> line_count, line |-> line]

\* the while (getline(is,line)) loop over the orbital definition lines and
\* the count assertions that follow it
RECURSIVE ParseBodyLoop(_, _, _, _, _, _, _, _)
ParseBodyLoop(is, pos, line_count, parsed, standalone, num_orbitals_p, num_orbitals_n, extracted) ==
    IF pos > Len(is)
    THEN IF standalone /\ (num_orbitals_p # extracted[1]
                             \/ num_orbitals_n # extracted[2])
         THEN [status |-> "assertion_failed"]
         ELSE [status |-> "ok", states |-> parsed]
    ELSE LET line == is[pos]
             index == ExtractInt(LineStream(line))
             read == ParseOrbital(index.in)
         IN  IF Len(line) = 0
             THEN ParseBodyLoop(is, pos + 1, line_count + 1, parsed, standalone,
                                num_orbitals_p, num_orbitals_n, extracted)
             ELSE IF read.in.fail
             THEN ParsingError(line_count + 1, line)
             ELSE LET state == read.orbital_info
                  IN  ParseBodyLoop(
                          is, pos + 1, line_count + 1, Append(parsed, state),
                          standalone, num_orbitals_p, num_orbitals_n,
                          <<extracted[1]
                              + (IF state.orbital_species = kP THEN 1 ELSE 0),
                            extracted[2]
                              + (IF state.orbital_species = kN THEN 1 ELSE 0)>>)

\* number of leading comment lines
RECURSIVE LeadingComments(_, _)
LeadingComments(is, pos) ==
    IF pos <= Len(is) /\ IsComment(is[pos]) THEN 1 + LeadingComments(is, pos + 1)
    ELSE 0

\* a buggy variant: the count assertions are left out
ParseOrbitalPNStream_NoCountCheck(is, standalone) ==
    IF ~standalone
    THEN ParseBodyLoop(is, 1, 0, <<>>, FALSE, 0, 0, <<0, 0>>)
    ELSE LET comments == LeadingComments(is, 1)
             version_line == IF comments >= Len(is) THEN <<>> ELSE is[comments + 1]
             version == ExtractInt(LineStream(version_line))
         IN  IF version.in.fail
             THEN ParsingError(comments + 1, version_line)
             ELSE IF version.value # kVersion
             THEN [status |-> "assertion_failed"]
             ELSE LET dims_line == IF comments + 2 > Len(is) THEN <<>>
                                   ELSE is[comments + 2]
                      num_orbitals_p == ExtractInt(LineStream(dims_line))
                      num_orbitals_n == ExtractInt(num_orbitals_p.in)
                  IN  IF num_orbitals_n.in.fail
                      THEN ParsingError(comments + 2, dims_line)
                      ELSE ParseBodyLoop(is, comments + 3, comments + 2, <<>>,
                                         FALSE, 0, 0, <<0, 0>>)

\* ParseOrbitalPNStream(is, standalone)
ParseOrbitalPNStream(is, standalone) ==
    IF ~standalone
    THEN ParseBodyLoop(is, 1, 0, <<>>, FALSE, 0, 0, <<0, 0>>)
    ELSE LET comments == LeadingComments(is, 1)
             \* getline past the last line leaves `line` empty
             version_line == IF comments >= Len(is) THEN <<>> ELSE is[comments + 1]
             version == ExtractInt(LineStream(version_line))
         IN  IF version.in.fail
             THEN ParsingError(comments + 1, version_line)
             ELSE IF version.value # kVersion
             THEN [status |-> "assertion_failed"]
             ELSE LET dims_line == IF comments + 2 > Len(is) THEN <<>>
                                   ELSE is[comments + 2]
                      num_orbitals_p == ExtractInt(LineStream(dims_line))
                      num_orbitals_n == ExtractInt(num_orbitals_p.in)
                  IN  IF num_orbitals_n.in.fail
                      THEN ParsingError(comments + 2, dims_line)
                      ELSE ParseBodyLoop(is, comments + 3, comments + 2, <<>>,
                                         TRUE, num_orbitals_p.value,
                                         num_orbitals_n.value, <<0, 0>>)

----------------------------------------------------------------------------
(* Matrix element lookup (nlj_operator).  Full orbital labels are          *)
(* <<species, n, l, 2j>>.  An exception that leaves a function is the      *)
(* outcome `thrown`; std::exit is the outcome `exit`; a failed assert is   *)
(* the outcome `assert`.                                                   *)

\* the diagnostics of MatrixElementLJPN, with the labels of the two states
Diagnostic(text, bra_labels, ket_labels) ==
    [text |-> text, bra |-> bra_labels, ket |-> ket_labels]
NoDiagnostic == [text |-> "none"]

\* MatrixElementIndicesLJPN
MatrixElementIndicesLJPN(bra_orbital_space, ket_orbital_space, sectors_, bra_labels, ket_labels) ==
    LET bra_subspace_index ==
            LookUpSubspaceIndex(bra_orbital_space,
                                <<bra_labels[1], bra_labels[3], bra_labels[4]>>)
        ket_subspace_index ==
            LookUpSubspaceIndex(ket_orbital_space,
                                <<ket_labels[1], ket_labels[3], ket_labels[4]>>)
        sector_index ==
            LookUpSectorIndex(sectors_,
                              <<bra_subspace_index, ket_subspace_index, 1>>)
    IN  \* short-circuit on missing sector
        IF sector_index = kNone
        THEN [thrown |-> FALSE, value |-> <<sector_index, kNone, kNone>>]
        ELSE LET got == GetSector(sectors_, sector_index)
             IN  IF got.thrown THEN [thrown |-> TRUE]
                 \* assert((bra_n>=0)&&(ket_n>=0))
                 ELSE IF ~(bra_labels[2] >= 0 /\ ket_labels[2] >= 0)
                 THEN [outcome |-> "assert"]
                 ELSE [thrown |-> FALSE,
                       value |->
                         <<sector_index,
                           IF bra_labels[2] < size(got.sector.bra_subspace)
                           THEN bra_labels[2] ELSE kNone,
                           IF ket_labels[2] < size(got.sector.ket_subspace)
                           THEN ket_labels[2] ELSE kNone>>]

\* the rest of MatrixElementLJPN once the sector lookup has succeeded: the
\* overrun diagnostic is printed, and the matrix entry is read in any case
ReadMatrixElement(sectors_, indices, bra_labels, ket_labels) ==
    IF GetSector(sectors_, indices[1]).thrown
    THEN [outcome |-> "thrown", diagnostic |-> NoDiagnostic, read |-> <<>>]
    ELSE [outcome |-> "return",
          diagnostic |->
              IF indices[2] = kNone \/ indices[3] = kNone
              THEN Diagnostic("radial quantum number not found in orbital subspace",
                              bra_labels, ket_labels)
              ELSE NoDiagnostic,
          read |-> <<indices>>]

\* a buggy variant: the failed sector lookup is reported but the process
\* goes on
MatrixElementLJPN_NoExit(bra_orbital_space, ket_orbital_space, sectors_, bra_labels, ket_labels) ==
    LET indices == MatrixElementIndicesLJPN(bra_orbital_space, ket_orbital_space,
                                            sectors_, bra_labels, ket_labels)
    IN  IF indices = [outcome |-> "assert"]
        THEN [outcome |-> "assert", diagnostic |-> NoDiagnostic, read |-> <<>>]
        ELSE IF indices.thrown
        THEN [outcome |-> "thrown", diagnostic |-> NoDiagnostic, read |-> <<>>]
        ELSE IF indices.value[1] = kNone
        THEN [outcome |-> "return",
              diagnostic |-> Diagnostic("missing sector", bra_labels, ket_labels),
              read |-> <<indices.value>>]
        ELSE ReadMatrixElement(sectors_, indices.value, bra_labels, ket_labels)

\* MatrixElementLJPN on the full labels of the bra and ket states: how the
\* call ends, the diagnostic printed, and the matrix entries read, each as
\* <<sector index, bra state index, ket state index>>
MatrixElementLJPN(bra_orbital_space, ket_orbital_space, sectors_, bra_labels, ket_labels) ==
    LET indices == MatrixElementIndicesLJPN(bra_orbital_space, ket_orbital_space,
                                            sectors_, bra_labels, ket_labels)
    IN  IF indices = [outcome |-> "assert"]
        THEN [outcome |-> "assert", diagnostic |-> NoDiagnostic, read |-> <<>>]
        ELSE IF indices.thrown
        THEN [outcome |-> "thrown", diagnostic |-> NoDiagnostic, read |-> <<>>]
        \* trap failed sector lookup
        ELSE IF indices.value[1] = kNone
        THEN [outcome |-> "exit",
              diagnostic |-> Diagnostic("missing sector", bra_labels, ket_labels),
              read |-> <<>>]
        ELSE ReadMatrixElement(sectors_, indices.value, bra_labels, ket_labels)

----------------------------------------------------------------------------
(* Two-body states in jjJpn scheme (jjjpn_scheme).  Subspace labels are    *)
(* <<species, J, g>> with J an integer; state labels are <<index1,         *)
(* index2>>, indices into the orbital subspaces of particles 1 and 2.  A   *)
(* WeightMax is [one_body |-> <<wp, wn>>, two_body |-> <<wpp, wnn, wpn>>]. *)
(* The constructors are modelled from the enumeration the specification    *)
(* gives for them.                                                         *)

\* TwoBodySpeciesPN: increasing species is pp, nn, pn
kPP == 0
kNN == 1
kPN == 2
TwoBodySpeciesPN == {kPP, kNN, kPN}

\* TwoBodySpaceJJJPNOrdering
TwoBodySpaceJJJPNOrdering == {"kPN", "kTz"}

\* a + b and a <= b on doubles
WAdd(a, b) ==
    [int |-> a.int + b.int + ((a.frac + b.frac) \div WeightOne),
     frac |-> (a.frac + b.frac) % WeightOne]
WLessEq(a, b) == ~WLess(b, a)

\* WeightMax(wp, wn, wpp, wnn, wpn)
WeightMax(wp, wn, wpp, wnn, wpn) ==
    [one_body |-> <<wp, wn>>, two_body |-> <<wpp, wnn, wpn>>]

\* WeightMax(N1max, N2max)
WeightMax_N1N2(N1max, N2max) ==
    WeightMax(Double(N1max), Double(N1max),
              Double(N2max), Double(N2max), Double(N2max))

\* the orbital species of particles 1 and 2 of a two-body species
OrbitalSpecies1(two_body_species) == IF two_body_species = kNN THEN kN ELSE kP
OrbitalSpecies2(two_body_species) == IF two_body_species = kPP THEN kP ELSE kN

\* the orbital subspace of a species; a space without it gives an empty one
OrbitalSubspaceOf(orbital_space, orbital_species) ==
    LET subspace_index == LookUpSubspaceIndex(orbital_space, <<orbital_species>>)
    IN  IF subspace_index = kNone
        THEN OrbitalSubspacePN_List(orbital_species, <<>>)
        ELSE GetSubspace(orbital_space, subspace_index)

\* a buggy variant: the canonical order of identical particles is not asked for
Retained_AnyOrder(subspace, index1, index2) ==
    LET species == subspace.labels_[1]
        J == subspace.labels_[2]
        g == subspace.labels_[3]
        labels1 == GetStateLabels(subspace.orbital_subspace1, index1)
        labels2 == GetStateLabels(subspace.orbital_subspace2, index2)
        weight1 == subspace.orbital_subspace1.weights_[index1 + 1]
        weight2 == subspace.orbital_subspace2.weights_[index2 + 1]
    IN  /\ Abs(labels1[3] - labels2[3]) <= 2 * J
        /\ 2 * J <= labels1[3] + labels2[3]
        /\ (labels1[2] + labels2[2]) % 2 = g
        /\ ~(species # kPN /\ index1 = index2 /\ J % 2 = 1)
        /\ WLessEq(weight1, subspace.weight_max_.one_body[OrbitalSpecies1(species) + 1])
        /\ WLessEq(weight2, subspace.weight_max_.one_body[OrbitalSpecies2(species) + 1])
        /\ WLessEq(WAdd(weight1, weight2), subspace.weight_max_.two_body[species + 1])

\* a buggy variant: two identical orbitals are coupled to odd J as well
Retained_NoAntisymmetry(subspace, index1, index2) ==
    LET species == subspace.labels_[1]
        J == subspace.labels_[2]
        g == subspace.labels_[3]
        labels1 == GetStateLabels(subspace.orbital_subspace1, index1)
        labels2 == GetStateLabels(subspace.orbital_subspace2, index2)
        weight1 == subspace.orbital_subspace1.weights_[index1 + 1]
        weight2 == subspace.orbital_subspace2.weights_[index2 + 1]
    IN  /\ ~(species # kPN /\ index2 < index1)
        /\ Abs(labels1[3] - labels2[3]) <= 2 * J
        /\ 2 * J <= labels1[3] + labels2[3]
        /\ (labels1[2] + labels2[2]) % 2 = g
        /\ WLessEq(weight1, subspace.weight_max_.one_body[OrbitalSpecies1(species) + 1])
        /\ WLessEq(weight2, subspace.weight_max_.one_body[OrbitalSpecies2(species) + 1])
        /\ WLessEq(WAdd(weight1, weight2), subspace.weight_max_.two_body[species + 1])

\* the body of the enumeration: none of the skips applies to the pair
Retained(subspace, index1, index2) ==
    LET species == subspace.labels_[1]
        J == subspace.labels_[2]
        g == subspace.labels_[3]
        labels1 == GetStateLabels(subspace.orbital_subspace1, index1)
        labels2 == GetStateLabels(subspace.orbital_subspace2, index2)
        weight1 == subspace.orbital_subspace1.weights_[index1 + 1]
        weight2 == subspace.orbital_subspace2.weights_[index2 + 1]
    IN  \* canonical order
        /\ ~(species # kPN /\ index2 < index1)
        \* triangularity
        /\ Abs(labels1[3] - labels2[3]) <= 2 * J
        /\ 2 * J <= labels1[3] + labels2[3]
        \* parity
        /\ (labels1[2] + labels2[2]) % 2 = g
        \* antisymmetry
        /\ ~(species # kPN /\ index1 = index2 /\ J % 2 = 1)
        \* one-body and two-body weight ceilings
        /\ WLessEq(weight1, subspace.weight_max_.one_body[OrbitalSpecies1(species) + 1])
        /\ WLessEq(weight2, subspace.weight_max_.one_body[OrbitalSpecies2(species) + 1])
        /\ WLessEq(WAdd(weight1, weight2), subspace.weight_max_.two_body[species + 1])

\* for index2 in orbital_subspace(species_of_particle_2)
RECURSIVE Index2Loop(_, _, _)
Index2Loop(subspace, index1, index2) ==
    IF size(subspace) >= 0 /\ index2 >= size(subspace.orbital_subspace2)
    THEN subspace
    ELSE Index2Loop(IF Retained(subspace, index1, index2)
                    THEN PushStateLabels(subspace, <<index1, index2>>)
                    ELSE subspace,
                    index1, index2 + 1)

\* for index1 in orbital_subspace(species_of_particle_1)
RECURSIVE Index1Loop(_, _)
Index1Loop(subspace, index1) ==
    IF size(subspace) >= 0 /\ index1 >= size(subspace.orbital_subspace1)
    THEN subspace
    ELSE Index1Loop(Index2Loop(subspace, index1, 0), index1 + 1)

\* TwoBodySubspaceJJJPN(orbital_space, two_body_species, J, g, weight_max)
TwoBodySubspaceJJJPN(orbital_space, two_body_species, J, g, weight_max) ==
    Index1Loop(
        [labels_ |-> <<two_body_species, J, g>>,
         dimension_ |-> 0, state_table_ |-> <<>>, lookup_ |-> EmptyMap,
         weight_max_ |-> weight_max,
         orbital_subspace1 |->
             OrbitalSubspaceOf(orbital_space, OrbitalSpecies1(two_body_species)),
         orbital_subspace2 |->
             OrbitalSubspaceOf(orbital_space, OrbitalSpecies2(two_body_species))],
        0)

\* a buggy variant: the Tz-major order ends after pn
SpeciesOrder_TzDropsNN(ordering) ==
    IF ordering = "kPN" THEN <<kPP, kNN, kPN>> ELSE <<kPP, kPN>>

\* the order of the species in a space: kPN -> {pp,nn,pn}, kTz -> {pp,pn,nn}
SpeciesOrder(ordering) ==
    IF ordering = "kPN" THEN <<kPP, kNN, kPN>> ELSE <<kPP, kPN, kNN>>

\* for species in the order: for J from 0 to the maximum: for g in {0,1}:
\* the subspace is built and kept when its size is not zero
RECURSIVE TwoBodySubspaceLoop(_, _, _, _, _, _)
TwoBodySubspaceLoop(space, orbital_space, species_list, J, g, Jmax) ==
    IF SpaceSize(space) >= 0 /\ species_list = <<>> THEN space
    ELSE IF J > Jmax
    THEN TwoBodySubspaceLoop(space, orbital_space, Tail(species_list), 0, 0, Jmax)
    ELSE IF g > 1
    THEN TwoBodySubspaceLoop(space, orbital_space, species_list, J + 1, 0, Jmax)
    ELSE LET subspace == TwoBodySubspaceJJJPN(orbital_space, Head(species_list),
                                              J, g, space.weight_max_)
         IN  TwoBodySubspaceLoop(
                 IF size(subspace) > 0 THEN PushSubspace(space, subspace)
                 ELSE space,
                 orbital_space, species_list, J, g + 1, Jmax)

\* TwoBodySpaceJJJPN(orbital_space, weight_max, ordering).  The constructor
\* takes J "from 0 up to an implied maximum": which maximum is stated
\* nowhere, so it is the parameter Jmax here, taken from JmaxDomain.
TwoBodySpaceJJJPN(orbital_space, weight_max, ordering, Jmax) ==
    TwoBodySubspaceLoop(
        [subspaces_ |-> <<>>, lookup_ |-> EmptyMap,
         weight_max_ |-> weight_max, space_ordering_ |-> ordering],
        orbital_space, SpeciesOrder(ordering), 0, 0, Jmax)

\* kTwoBodySpeciesPNCodeTz: Tz of pp, nn, pn
kTwoBodySpeciesPNCodeTz == <<1, -1, 0>>

\* the constraints of an operator (J0, g0, Tz0) on a pair of two-body
\* subspace labels <<species, J, g>>
TwoBodySectorAllowed(bra_labels, ket_labels, J0, g0, Tz0) ==
    /\ Abs(bra_labels[2] - ket_labels[2]) <= J0
    /\ J0 <= bra_labels[2] + ket_labels[2]
    /\ (bra_labels[3] + g0 + ket_labels[3]) % 2 = 0
    /\ Abs(kTwoBodySpeciesPNCodeTz[bra_labels[1] + 1]
             - kTwoBodySpeciesPNCodeTz[ket_labels[1] + 1]) <= Tz0

\* a buggy variant: the canonical half is not asked for
RECURSIVE TwoBodyKetLoop_BothDirections(_, _, _, _, _, _, _, _)
TwoBodyKetLoop_BothDirections(sectors_, space, J0, g0, Tz0, sector_direction, bra_subspace_index, ket_subspace_index) ==
    IF SectorsSize(sectors_) >= 0
         /\ ket_subspace_index >= SpaceSize(space) THEN sectors_
    ELSE LET bra_subspace == GetSubspace(space, bra_subspace_index)
             ket_subspace == GetSubspace(space, ket_subspace_index)
         IN  TwoBodyKetLoop_BothDirections(
                 IF TwoBodySectorAllowed(bra_subspace.labels_,
                                         ket_subspace.labels_, J0, g0, Tz0)
                 THEN PushSector(sectors_,
                          Key(BaseSector(bra_subspace_index, ket_subspace_index,
                                         bra_subspace, ket_subspace, 1)))
                 ELSE sectors_,
                 space, J0, g0, Tz0, sector_direction, bra_subspace_index,
                 ket_subspace_index + 1)

\* inner loop of the two-body sector enumeration
RECURSIVE TwoBodyKetLoop(_, _, _, _, _, _, _, _)
TwoBodyKetLoop(sectors_, space, J0, g0, Tz0, sector_direction, bra_subspace_index, ket_subspace_index) ==
    IF SectorsSize(sectors_) >= 0
         /\ ket_subspace_index >= SpaceSize(space) THEN sectors_
    ELSE IF sector_direction = kCanonical
              /\ bra_subspace_index > ket_subspace_index
         THEN TwoBodyKetLoop(sectors_, space, J0, g0, Tz0, sector_direction,
                             bra_subspace_index, ket_subspace_index + 1)
    ELSE LET bra_subspace == GetSubspace(space, bra_subspace_index)
             ket_subspace == GetSubspace(space, ket_subspace_index)
         IN  TwoBodyKetLoop(
                 IF TwoBodySectorAllowed(bra_subspace.labels_,
                                         ket_subspace.labels_, J0, g0, Tz0)
                 THEN PushSector(sectors_,
                          Key(BaseSector(bra_subspace_index, ket_subspace_index,
                                         bra_subspace, ket_subspace, 1)))
                 ELSE sectors_,
                 space, J0, g0, Tz0, sector_direction, bra_subspace_index,
                 ket_subspace_index + 1)

\* outer loop of the two-body sector enumeration
RECURSIVE TwoBodyBraLoop(_, _, _, _, _, _, _)
TwoBodyBraLoop(sectors_, space, J0, g0, Tz0, sector_direction, bra_subspace_index) ==
    IF SectorsSize(sectors_) >= 0
         /\ bra_subspace_index >= SpaceSize(space) THEN sectors_
    ELSE TwoBodyBraLoop(
             TwoBodyKetLoop(sectors_, space, J0, g0, Tz0, sector_direction,
                            bra_subspace_index, 0),
             space, J0, g0, Tz0, sector_direction, bra_subspace_index + 1)

\* TwoBodySectorsJJJPN(space, J0, g0, Tz0, sector_direction)
TwoBodySectorsJJJPN(space, J0, g0, Tz0, sector_direction) ==
    LET built == TwoBodyBraLoop(BaseSectors_Spaces(space, space), space,
                                J0, g0, Tz0, sector_direction, 0)
    IN  [bra_space_ |-> built.bra_space_, ket_space_ |-> built.ket_space_,
         keys_ |-> built.keys_, lookup_ |-> built.lookup_,
         J0_ |-> J0, g0_ |-> g0, Tz0_ |-> Tz0]

----------------------------------------------------------------------------
(* Inputs *)

\* the orbital records a caller's list is drawn from: the 0s1/2, 0p1/2 and
\* 0p3/2 proton oscillator orbitals, the 0s1/2 neutron one, a neutron
\* 1s1/2 orbital of weight 2.5, and a second proton 0s1/2 record whose
\* weight 2^-9 = 0.001953125 needs a ninth decimal digit, a 5
OrbitalDomain ==
    {OrbitalPNInfo(kP, 0, 0, 1, Double(0)),
     OrbitalPNInfo(kP, 0, 1, 1, Double(1)),
     OrbitalPNInfo(kP, 0, 1, 3, Double(1)),
     OrbitalPNInfo(kN, 0, 0, 1, Double(0)),
     OrbitalPNInfo(kN, 1, 0, 1, [int |-> 2, frac |-> WeightOne \div 2]),
     OrbitalPNInfo(kP, 0, 0, 1, [int |-> 0, frac |-> WeightOne \div 512])}

OrbitalLists == UNION {[1..len -> OrbitalDomain] : len \in 0..MaxLen}

NmaxRange == (-2)..MaxNmax

\* (l, j) pairs handed to the OrbitalSubspaceLJPN constructors
LJDomain == {<<0, 1>>, <<1, 1>>, <<1, 3>>}

\* labels handed to the lookups
ProbeStateLabelsPN == {<<n, l, j>> : n \in 0..1, l \in 0..2, j \in {1, 3, 5}}
\* indices handed to the BaseState constructor, kNone among them
ProbeStateIndices == {kNone} \cup (0..(MaxLen + 1))
ProbeStateLabelsLJPN == {<<n>> : n \in 0..3}
ProbeSubspaceLabelsPN == {<<species>> : species \in OrbitalSpeciesPN}
ProbeSubspaceLabelsLJPN ==
    {<<species, l, j>> : species \in OrbitalSpeciesPN, l \in 0..2, j \in {1, 3}}
ProbeSectorKeys == {<<0, 0, 1>>, <<0, 1, 1>>, <<1, 0, 1>>, <<0, 0, 2>>, <<5, 5, 1>>}
ProbeSectorIndices == 0..2
\* weight ceilings handed to the two-body constructors: the oscillator
\* cutoffs, and one with a ceiling of its own for each species
WeightMaxDomain ==
    {WeightMax_N1N2(N1max, N2max) :
        N1max \in 0..MaxTwoBodyNmax, N2max \in 0..(2 * MaxTwoBodyNmax)}
      \cup {WeightMax(Double(2), Double(1), Double(4), Double(2), Double(3))}

\* values of the maximum of J in a two-body space: one that cuts all but
\* J = 0, one in the middle, and one no subspace of the orbital spaces
\* built here lies above
JmaxDomain == {0, MaxJmax \div 2, MaxJmax}

\* full orbital labels handed to the matrix element lookups
ProbeFullLabels ==
    {<<species, n, lj[1], lj[2]>> :
        species \in OrbitalSpeciesPN, n \in {0, 3},
        lj \in {<<0, 1>>, <<1, 3>>, <<5, 9>>}}

----------------------------------------------------------------------------
(* State machine: a caller constructs one object from its inputs, may go   *)
(* on to build sectors over an LJPN space, and queries what it has built.  *)

\* subspaces pushed through a space handle
PushDomain ==
    {OrbitalSubspaceLJPN_Nmax(kP, 0, 1, 0), OrbitalSubspaceLJPN_Nmax(kN, 0, 1, 0)}

\* number of subspaces in all the vectors of the heap
RECURSIVE PushCountFrom(_, _)
PushCountFrom(heap_, a) ==
    IF a > Len(heap_.vectors) THEN 0
    ELSE Len(heap_.vectors[a]) + PushCountFrom(heap_, a + 1)

PushCount(heap_) == PushCountFrom(heap_, 1)

\* no BaseSectors object has been built on the handles
NoSectors == [bra_of |-> 0, ket_of |-> 0]

NoCall == [op |-> "none"]
NoResult == [op |-> "none"]

Init ==
    /\ states = <<>>
    /\ call = NoCall
    /\ subspace_pn = BaseSubspace
    /\ subspace_ljpn = BaseSubspace
    /\ space_pn = BaseSpace
    /\ space_ljpn = BaseSpace
    /\ ket_space_ljpn = BaseSpace
    /\ sectors = BaseSectors
    /\ stream = <<>>
    /\ result = NoResult
    /\ two_body_subspace = BaseSubspace
    /\ two_body_space = BaseSpace
    /\ other_two_body_space = BaseSpace
    /\ two_body_sectors = BaseSectors
    /\ heap = [vectors |-> <<>>, maps |-> <<>>]
    /\ handles = <<>>
    /\ base_sectors = NoSectors

ConstructOrbitalSubspacePN_Nmax ==
    /\ call = NoCall
    /\ \E orbital_species \in OrbitalSpeciesPN, Nmax \in NmaxRange :
          /\ subspace_pn' = OrbitalSubspacePN_Nmax(orbital_species, Nmax)
          /\ call' = [op |-> "OrbitalSubspacePN(species,Nmax)",
                      orbital_species |-> orbital_species, Nmax |-> Nmax]
    /\ UNCHANGED <<shared, two_body, states, subspace_ljpn, space_pn, space_ljpn, ket_space_ljpn,
                   sectors, stream, result>>

ConstructOrbitalSubspacePN_List ==
    /\ call = NoCall
    /\ \E orbital_species \in OrbitalSpeciesPN, list \in OrbitalLists :
          /\ states' = list
          /\ subspace_pn' = OrbitalSubspacePN_List(orbital_species, list)
          /\ call' = [op |-> "OrbitalSubspacePN(species,states)",
                      orbital_species |-> orbital_species]
    /\ UNCHANGED <<shared, two_body, subspace_ljpn, space_pn, space_ljpn, ket_space_ljpn,
                   sectors, stream, result>>

\* The list-driven OrbitalSubspacePN constructor, one record of the list at
\* a time: entry (labels_ and weight_max_ set), one pass of the loop body
\* per record, and the oscillator test after the loop.
BeginOrbitalSubspacePN_List ==
    /\ call = NoCall
    /\ \E orbital_species \in OrbitalSpeciesPN, list \in OrbitalLists :
          /\ states' = list
          /\ subspace_pn' = [labels_ |-> <<orbital_species>>,
                             dimension_ |-> 0, state_table_ |-> <<>>,
                             lookup_ |-> EmptyMap, weights_ |-> <<>>,
                             weight_max_ |-> Double(0)]
          /\ call' = [op |-> "OrbitalSubspacePN(species,states) loop",
                      orbital_species |-> orbital_species, next |-> 1]
    /\ UNCHANGED <<shared, two_body, subspace_ljpn, space_pn, space_ljpn, ket_space_ljpn,
                   sectors, stream, result>>

StepOrbitalSubspacePN_List ==
    /\ call.op = "OrbitalSubspacePN(species,states) loop"
    /\ call.next <= Len(states)
    /\ subspace_pn' = ListLoopPN(subspace_pn, <<states[call.next]>>, 1)
    /\ call' = [call EXCEPT !.next = @ + 1]
    /\ UNCHANGED <<shared, two_body, states, subspace_ljpn, space_pn, space_ljpn,
                   ket_space_ljpn, sectors, stream, result>>

EndOrbitalSubspacePN_List ==
    /\ call.op = "OrbitalSubspacePN(species,states) loop"
    /\ call.next > Len(states)
    /\ subspace_pn' =
          IF OrbitalSubspacePN_IsOscillatorLike_(subspace_pn)
          THEN [is_oscillator_like_ |-> TRUE,
                Nmax_ |-> WInt(subspace_pn.weight_max_)] @@ subspace_pn
          ELSE [is_oscillator_like_ |-> FALSE, Nmax_ |-> -1] @@ subspace_pn
    /\ call' = [op |-> "OrbitalSubspacePN(species,states)",
                orbital_species |-> call.orbital_species]
    /\ UNCHANGED <<shared, two_body, states, subspace_ljpn, space_pn, space_ljpn,
                   ket_space_ljpn, sectors, stream, result>>

\* BaseSpace objects made, copied and pushed to, and a BaseSectors built
\* on them
SharedCalls ==
    {"BaseSpace()", "BaseSpace(space)", "PushSubspace",
     "BaseSectors(bra_space,ket_space)"}

ConstructBaseSpace ==
    /\ call = NoCall \/ call.op \in SharedCalls
    /\ Len(handles) < MaxHandles
    /\ LET made == NewBaseSpace(heap)
       IN  /\ heap' = made.heap
           /\ handles' = Append(handles, [space |-> made.space, copy_of |-> 0])
    /\ call' = [op |-> "BaseSpace()"]
    /\ UNCHANGED <<base_sectors, two_body, states, subspace_pn, subspace_ljpn,
                   space_pn, space_ljpn, ket_space_ljpn, sectors, stream, result>>

CopyBaseSpace ==
    /\ call.op \in SharedCalls
    /\ Len(handles) < MaxHandles
    /\ \E h \in 1..Len(handles) :
          LET copied == CopySpace(heap, handles[h].space)
          IN  /\ heap' = copied.heap
              /\ handles' = Append(handles, [space |-> copied.space, copy_of |-> h])
    /\ call' = [op |-> "BaseSpace(space)"]
    /\ UNCHANGED <<base_sectors, two_body, states, subspace_pn, subspace_ljpn,
                   space_pn, space_ljpn, ket_space_ljpn, sectors, stream, result>>

PushSubspaceThroughHandle ==
    /\ call.op \in SharedCalls
    /\ PushCount(heap) < MaxPushes
    /\ \E h \in 1..Len(handles), subspace \in PushDomain :
          heap' = PushSubspaceThrough(heap, handles[h].space, subspace)
    /\ call' = [op |-> "PushSubspace"]
    /\ UNCHANGED <<handles, base_sectors, two_body, states, subspace_pn,
                   subspace_ljpn, space_pn, space_ljpn, ket_space_ljpn, sectors,
                   stream, result>>

ConstructBaseSectors ==
    /\ call.op \in SharedCalls
    /\ base_sectors = NoSectors
    /\ \E bra \in 1..Len(handles), ket \in 1..Len(handles) :
          LET built == BaseSectors_Handles(heap, handles[bra].space,
                                           handles[ket].space)
          IN  /\ heap' = built.heap
              /\ base_sectors' = [bra_space_ |-> built.bra_space_,
                                  ket_space_ |-> built.ket_space_,
                                  bra_of |-> bra, ket_of |-> ket]
    /\ call' = [op |-> "BaseSectors(bra_space,ket_space)"]
    /\ UNCHANGED <<handles, two_body, states, subspace_pn, subspace_ljpn,
                   space_pn, space_ljpn, ket_space_ljpn, sectors, stream, result>>

ConstructOrbitalSubspaceLJPN_Nmax ==
    /\ call = NoCall
    /\ \E orbital_species \in OrbitalSpeciesPN, lj \in LJDomain,
          Nmax \in NmaxRange :
          /\ subspace_ljpn' =
                 OrbitalSubspaceLJPN_Nmax(orbital_species, lj[1], lj[2], Nmax)
          /\ call' = [op |-> "OrbitalSubspaceLJPN(species,l,j,Nmax)",
                      orbital_species |-> orbital_species,
                      l |-> lj[1], j |-> lj[2], Nmax |-> Nmax]
    /\ UNCHANGED <<shared, two_body, states, subspace_pn, space_pn, space_ljpn, ket_space_ljpn,
                   sectors, stream, result>>

ConstructOrbitalSubspaceLJPN_List ==
    /\ call = NoCall
    /\ \E orbital_species \in OrbitalSpeciesPN, lj \in LJDomain,
          list \in OrbitalLists :
          /\ states' = list
          /\ subspace_ljpn' =
                 OrbitalSubspaceLJPN_List(orbital_species, lj[1], lj[2], list)
          /\ call' = [op |-> "OrbitalSubspaceLJPN(species,l,j,states)",
                      orbital_species |-> orbital_species,
                      l |-> lj[1], j |-> lj[2]]
    /\ UNCHANGED <<shared, two_body, subspace_pn, space_pn, space_ljpn, ket_space_ljpn,
                   sectors, stream, result>>

ConstructOrbitalSpacePN_Nmax ==
    /\ call = NoCall
    /\ \E Nmax \in NmaxRange :
          /\ space_pn' = OrbitalSpacePN_Nmax(Nmax)
          /\ call' = [op |-> "OrbitalSpacePN(Nmax)", Nmax |-> Nmax]
    /\ UNCHANGED <<shared, two_body, states, subspace_pn, subspace_ljpn, space_ljpn,
                   ket_space_ljpn, sectors, stream, result>>

ConstructOrbitalSpacePN_List ==
    /\ call = NoCall
    /\ \E list \in OrbitalLists :
          /\ states' = list
          /\ space_pn' = OrbitalSpacePN_List(list)
          /\ call' = [op |-> "OrbitalSpacePN(states)"]
    /\ UNCHANGED <<shared, two_body, subspace_pn, subspace_ljpn, space_ljpn, ket_space_ljpn,
                   sectors, stream, result>>

ConstructOrbitalSpaceLJPN_Nmax ==
    /\ call = NoCall
    /\ \E Nmax \in NmaxRange :
          /\ space_ljpn' = OrbitalSpaceLJPN_Nmax(Nmax)
          /\ call' = [op |-> "OrbitalSpaceLJPN(Nmax)", Nmax |-> Nmax]
    /\ UNCHANGED <<shared, two_body, states, subspace_pn, subspace_ljpn, space_pn,
                   ket_space_ljpn, sectors, stream, result>>

ConstructOrbitalSpaceLJPN_List ==
    /\ call = NoCall
    /\ \E list \in OrbitalLists :
          /\ states' = list
          /\ space_ljpn' = OrbitalSpaceLJPN_List(list)
          /\ call' = [op |-> "OrbitalSpaceLJPN(states)"]
    /\ UNCHANGED <<shared, two_body, subspace_pn, subspace_ljpn, space_pn, ket_space_ljpn,
                   sectors, stream, result>>

SpaceLJPNCalls == {"OrbitalSpaceLJPN(Nmax)", "OrbitalSpaceLJPN(states)"}

\* the caller of OrbitalSpaceLJPN(Nmax) builds a second LJPN space, to serve
\* as the ket space
ConstructKetSpaceLJPN ==
    /\ call.op = "OrbitalSpaceLJPN(Nmax)"
    /\ result = NoResult
    /\ \E Nmax \in 0..1 :
          /\ ket_space_ljpn' = OrbitalSpaceLJPN_Nmax(Nmax)
          /\ call' = [op |-> "ket OrbitalSpaceLJPN(Nmax)", Nmax |-> Nmax]
    /\ UNCHANGED <<shared, two_body, states, subspace_pn, subspace_ljpn, space_pn, space_ljpn,
                   sectors, stream, result>>

ConstructSectors_AllToAll ==
    /\ call.op = "OrbitalSpaceLJPN(Nmax)"
    /\ result = NoResult
    /\ \E sector_direction \in SectorDirection :
          /\ sectors' = OrbitalSectorsLJPN_AllToAll(space_ljpn, sector_direction)
          /\ call' = [op |-> "OrbitalSectorsLJPN(space,direction)",
                      sector_direction |-> sector_direction]
    /\ UNCHANGED <<shared, two_body, states, subspace_pn, subspace_ljpn, space_pn, space_ljpn,
                   ket_space_ljpn, stream, result>>

ConstructSectors_Constrained ==
    /\ call.op = "OrbitalSpaceLJPN(Nmax)"
    /\ result = NoResult
    /\ \E l0max \in 0..MaxL0, Tz0 \in 0..1, sector_direction \in SectorDirection :
          /\ sectors' = OrbitalSectorsLJPN_Constrained(space_ljpn, l0max, Tz0,
                                                       sector_direction)
          /\ call' = [op |-> "OrbitalSectorsLJPN(space,l0max,Tz0,direction)",
                      l0max |-> l0max, Tz0 |-> Tz0,
                      sector_direction |-> sector_direction]
    /\ UNCHANGED <<shared, two_body, states, subspace_pn, subspace_ljpn, space_pn, space_ljpn,
                   ket_space_ljpn, stream, result>>

ConstructSectors_AllToAll2 ==
    /\ call.op = "ket OrbitalSpaceLJPN(Nmax)"
    /\ result = NoResult
    /\ sectors' = OrbitalSectorsLJPN_AllToAll2(space_ljpn, ket_space_ljpn)
    /\ call' = [op |-> "OrbitalSectorsLJPN(bra_space,ket_space)"]
    /\ UNCHANGED <<shared, two_body, states, subspace_pn, subspace_ljpn, space_pn, space_ljpn,
                   ket_space_ljpn, stream, result>>

ConstructSectors_Constrained2 ==
    /\ call.op = "ket OrbitalSpaceLJPN(Nmax)"
    /\ result = NoResult
    /\ \E l0max \in 0..MaxL0, Tz0 \in 0..1 :
          /\ sectors' = OrbitalSectorsLJPN_Constrained2(space_ljpn, ket_space_ljpn,
                                                        l0max, Tz0)
          /\ call' = [op |-> "OrbitalSectorsLJPN(bra_space,ket_space,l0max,Tz0)",
                      l0max |-> l0max, Tz0 |-> Tz0]
    /\ UNCHANGED <<shared, two_body, states, subspace_pn, subspace_ljpn, space_pn, space_ljpn,
                   ket_space_ljpn, stream, result>>

SectorsCalls ==
    {"OrbitalSectorsLJPN(space,direction)",
     "OrbitalSectorsLJPN(space,l0max,Tz0,direction)",
     "OrbitalSectorsLJPN(bra_space,ket_space)",
     "OrbitalSectorsLJPN(bra_space,ket_space,l0max,Tz0)"}

SubspacePNCalls ==
    {"OrbitalSubspacePN(species,Nmax)", "OrbitalSubspacePN(species,states)"}
SubspaceLJPNCalls ==
    {"OrbitalSubspaceLJPN(species,l,j,Nmax)",
     "OrbitalSubspaceLJPN(species,l,j,states)"}
SpacePNCalls == {"OrbitalSpacePN(Nmax)", "OrbitalSpacePN(states)"}

\* the objects a query reads
objects == <<states, call, subspace_pn, subspace_ljpn, space_pn, space_ljpn,
             ket_space_ljpn, sectors, stream, two_body, shared>>

QueryStateIndexPN ==
    /\ call.op \in SubspacePNCalls
    /\ result = NoResult
    /\ \E state_labels \in ProbeStateLabelsPN :
          result' = [op |-> "LookUpStateIndex", on |-> "subspace_pn",
                     labels |-> state_labels,
                     value |-> LookUpStateIndex(subspace_pn, state_labels)]
    /\ UNCHANGED objects

QueryBaseState_Index ==
    /\ call.op \in SubspacePNCalls
    /\ result = NoResult
    /\ \E index \in ProbeStateIndices :
          result' = [op |-> "BaseState(subspace,index)", on |-> "subspace_pn",
                     index |-> index,
                     state |-> BaseState_Index(subspace_pn, index)]
    /\ UNCHANGED objects

QueryBaseState_Labels ==
    /\ call.op \in SubspacePNCalls
    /\ result = NoResult
    /\ \E state_labels \in ProbeStateLabelsPN :
          result' = [op |-> "BaseState(subspace,labels)", on |-> "subspace_pn",
                     labels |-> state_labels,
                     state |-> BaseState_Labels(subspace_pn, state_labels)]
    /\ UNCHANGED objects

QueryLookUpSubspace ==
    /\ call.op \in SpaceLJPNCalls
    /\ result = NoResult
    /\ \E subspace_labels \in ProbeSubspaceLabelsLJPN :
          result' = [op |-> "LookUpSubspace", on |-> "space_ljpn",
                     labels |-> subspace_labels,
                     found |-> LookUpSubspace(space_ljpn, subspace_labels)]
    /\ UNCHANGED objects

QueryStateIndexLJPN ==
    /\ call.op \in SubspaceLJPNCalls
    /\ result = NoResult
    /\ \E state_labels \in ProbeStateLabelsLJPN :
          result' = [op |-> "LookUpStateIndex", on |-> "subspace_ljpn",
                     labels |-> state_labels,
                     value |-> LookUpStateIndex(subspace_ljpn, state_labels)]
    /\ UNCHANGED objects

QuerySubspaceIndexPN ==
    /\ call.op \in SpacePNCalls
    /\ result = NoResult
    /\ \E subspace_labels \in ProbeSubspaceLabelsPN :
          result' = [op |-> "LookUpSubspaceIndex", on |-> "space_pn",
                     labels |-> subspace_labels,
                     value |-> LookUpSubspaceIndex(space_pn, subspace_labels)]
    /\ UNCHANGED objects

QuerySubspaceIndexLJPN ==
    /\ call.op \in SpaceLJPNCalls
    /\ result = NoResult
    /\ \E subspace_labels \in ProbeSubspaceLabelsLJPN :
          result' = [op |-> "LookUpSubspaceIndex", on |-> "space_ljpn",
                     labels |-> subspace_labels,
                     value |-> LookUpSubspaceIndex(space_ljpn, subspace_labels)]
    /\ UNCHANGED objects

QuerySectorIndex ==
    /\ call.op \in SectorsCalls
    /\ result = NoResult
    /\ \E key \in ProbeSectorKeys :
          result' = [op |-> "LookUpSectorIndex", on |-> "sectors",
                     labels |-> key,
                     value |-> LookUpSectorIndex(sectors, key)]
    /\ UNCHANGED objects

QueryGetSector ==
    /\ call.op \in SectorsCalls
    /\ result = NoResult
    /\ \E sector_index \in ProbeSectorIndices :
          /\ sector_index < SectorsSize(sectors)
          /\ result' = [op |-> "GetSector", on |-> "sectors",
                        sector_index |-> sector_index,
                        value |-> GetSector(sectors, sector_index)]
    /\ UNCHANGED objects

\* the ket space the sectors were built over
SectorsKetSpace ==
    IF call.op \in {"OrbitalSectorsLJPN(bra_space,ket_space)",
                    "OrbitalSectorsLJPN(bra_space,ket_space,l0max,Tz0)"}
    THEN ket_space_ljpn ELSE space_ljpn

QueryMatrixElementIndicesLJPN ==
    /\ call.op \in SectorsCalls
    /\ result = NoResult
    /\ \E bra_labels \in ProbeFullLabels, ket_labels \in ProbeFullLabels :
          result' = [op |-> "MatrixElementIndicesLJPN",
                     bra |-> bra_labels, ket |-> ket_labels,
                     value |-> MatrixElementIndicesLJPN(
                                   space_ljpn, SectorsKetSpace, sectors,
                                   bra_labels, ket_labels)]
    /\ UNCHANGED objects

QueryMatrixElementLJPN ==
    /\ call.op \in SectorsCalls
    /\ result = NoResult
    /\ \E bra_labels \in ProbeFullLabels, ket_labels \in ProbeFullLabels :
          result' = [op |-> "MatrixElementLJPN",
                     bra |-> bra_labels, ket |-> ket_labels,
                     value |-> MatrixElementLJPN(
                                   space_ljpn, SectorsKetSpace, sectors,
                                   bra_labels, ket_labels)]
    /\ UNCHANGED objects

\* the two-body objects are built over a truncation-driven orbital space
ConstructTwoBodySubspaceJJJPN ==
    /\ call.op = "OrbitalSpacePN(Nmax)"
    /\ call.Nmax <= MaxTwoBodyNmax
    /\ result = NoResult
    /\ \E two_body_species \in TwoBodySpeciesPN, J \in 0..MaxJ, g \in 0..1,
          weight_max \in WeightMaxDomain :
          /\ two_body_subspace' = TwoBodySubspaceJJJPN(space_pn, two_body_species,
                                                       J, g, weight_max)
          /\ call' = [op |-> "TwoBodySubspaceJJJPN",
                      two_body_species |-> two_body_species, J |-> J, g |-> g,
                      weight_max |-> weight_max]
    /\ UNCHANGED <<shared, states, subspace_pn, subspace_ljpn, space_pn, space_ljpn,
                   ket_space_ljpn, sectors, stream, result, two_body_space,
                   other_two_body_space, two_body_sectors>>

ConstructTwoBodySpaceJJJPN ==
    /\ call.op = "OrbitalSpacePN(Nmax)"
    /\ call.Nmax <= MaxTwoBodyNmax
    /\ result = NoResult
    /\ \E weight_max \in WeightMaxDomain, ordering \in TwoBodySpaceJJJPNOrdering,
          Jmax \in JmaxDomain :
          /\ two_body_space' = TwoBodySpaceJJJPN(space_pn, weight_max, ordering,
                                                 Jmax)
          /\ call' = [op |-> "TwoBodySpaceJJJPN",
                      weight_max |-> weight_max, ordering |-> ordering,
                      Jmax |-> Jmax]
    /\ UNCHANGED <<shared, states, subspace_pn, subspace_ljpn, space_pn, space_ljpn,
                   ket_space_ljpn, sectors, stream, result, two_body_subspace,
                   other_two_body_space, two_body_sectors>>

\* the caller of TwoBodySpaceJJJPN builds a second space over the same
\* orbital space and weight ceilings, in the other ordering; the maximum of
\* J, which the ordering has no part in, is the same
ConstructOtherTwoBodySpaceJJJPN ==
    /\ call.op = "TwoBodySpaceJJJPN"
    /\ result = NoResult
    /\ \E ordering \in TwoBodySpaceJJJPNOrdering \ {call.ordering} :
          other_two_body_space' =
              TwoBodySpaceJJJPN(space_pn, call.weight_max, ordering, call.Jmax)
    /\ call' = [op |-> "TwoBodySpaceJJJPN in both orderings",
                weight_max |-> call.weight_max, ordering |-> call.ordering,
                Jmax |-> call.Jmax]
    /\ UNCHANGED <<shared, states, subspace_pn, subspace_ljpn, space_pn, space_ljpn,
                   ket_space_ljpn, sectors, stream, result, two_body_subspace,
                   two_body_space, two_body_sectors>>

\* the caller of TwoBodySpaceJJJPN goes on to enumerate the sectors of an
\* operator over the space
ConstructTwoBodySectorsJJJPN ==
    /\ call.op = "TwoBodySpaceJJJPN"
    /\ result = NoResult
    /\ \E J0 \in 0..MaxJ0, g0 \in 0..1, Tz0 \in 0..2,
          sector_direction \in SectorDirection :
          /\ two_body_sectors' = TwoBodySectorsJJJPN(two_body_space, J0, g0, Tz0,
                                                     sector_direction)
          /\ call' = [op |-> "TwoBodySectorsJJJPN",
                      weight_max |-> call.weight_max, ordering |-> call.ordering,
                      Jmax |-> call.Jmax, J0 |-> J0, g0 |-> g0, Tz0 |-> Tz0,
                      sector_direction |-> sector_direction]
    /\ UNCHANGED <<shared, states, subspace_pn, subspace_ljpn, space_pn, space_ljpn,
                   ket_space_ljpn, sectors, stream, result, two_body_subspace,
                   two_body_space, other_two_body_space>>

WriteOrbitalDefinitionStr ==
    /\ call = NoCall
    /\ \E list \in OrbitalLists, standalone \in BOOLEAN :
          /\ states' = list
          /\ stream' = OrbitalDefinitionStr(list, standalone)
          /\ call' = [op |-> "OrbitalDefinitionStr", standalone |-> standalone]
    /\ UNCHANGED <<shared, two_body, subspace_pn, subspace_ljpn, space_pn, space_ljpn,
                   ket_space_ljpn, sectors, result>>

\* the lines of a text with line `at` taken out
DeleteLine(is, at) == SubSeq(is, 1, at - 1) \o SubSeq(is, at + 1, Len(is))

\* the lines of a text with `line` put in before line `at`
InsertLine(is, at, line) ==
    SubSeq(is, 1, at - 1) \o <<line>> \o SubSeq(is, at, Len(is))

\* the lines of a text with piece `token` of line `at` replaced
ReplaceToken(is, at, token, piece) ==
    [is EXCEPT ![at] = [@ EXCEPT ![token] = piece]]

\* the lines of a text with token `token` of line `at` turned into a word
\* that is no numeral
GarbleToken(is, at, token) == ReplaceToken(is, at, token, WordToken("x"))

\* position of the first field of a line
FirstField(line) ==
    IF line # <<>> /\ line[1].kind = "blank" THEN 2 ELSE 1

\* the fields of a line a hand edit touches: the first one, the last one
\* and the one before the last
EditedFields(line) ==
    {token \in {FirstField(line), Len(line) - 1, Len(line)} :
        FirstField(line) <= token}

\* the hand edits of a text: a line deleted or written twice; a comment
\* line, an empty line or a line of blanks put in; a blank put in front of
\* a line; a field replaced by a word, a numeral followed directly by an x,
\* the last numeral of a line followed directly by an e, an integer
\* numeral written with a decimal point
TextEdits(is) ==
    [kind : {"delete", "duplicate"}, at : 1..Len(is)]
      \cup [kind : {"comment", "blank", "spaces"}, at : 1..(Len(is) + 1)]
      \cup {e \in [kind : {"indent"}, at : 1..Len(is)] :
              FirstField(is[e.at]) = 1}
      \cup {e \in [kind : {"garble"}, at : 1..Len(is), token : 1..7] :
              e.token \in {FirstField(is[e.at]), Len(is[e.at])}}
      \cup {e \in [kind : {"suffix"}, at : 1..Len(is), token : 1..7] :
              /\ e.token \in EditedFields(is[e.at])
              /\ is[e.at][e.token].kind \in {"int", "fixed"}}
      \cup {e \in [kind : {"exponent"}, at : 1..Len(is), token : 1..7] :
              /\ e.token = Len(is[e.at])
              /\ is[e.at][e.token].kind \in {"int", "fixed"}}
      \cup {e \in [kind : {"decimal"}, at : 1..Len(is), token : 1..7] :
              /\ e.token \in EditedFields(is[e.at])
              /\ is[e.at][e.token].kind = "int"}

EditedText(is, edit) ==
    IF edit.kind = "delete" THEN DeleteLine(is, edit.at)
    ELSE IF edit.kind = "duplicate" THEN InsertLine(is, edit.at, is[edit.at])
    ELSE IF edit.kind = "comment" THEN InsertLine(is, edit.at, CommentLine("edited"))
    ELSE IF edit.kind = "blank" THEN InsertLine(is, edit.at, <<>>)
    ELSE IF edit.kind = "spaces" THEN InsertLine(is, edit.at, <<BlankToken>>)
    ELSE IF edit.kind = "indent"
    THEN [is EXCEPT ![edit.at] = <<BlankToken>> \o @]
    ELSE IF edit.kind = "garble" THEN GarbleToken(is, edit.at, edit.token)
    ELSE IF edit.kind = "suffix"
    THEN ReplaceToken(is, edit.at, edit.token,
                      SuffixedToken(is[edit.at][edit.token], "x"))
    ELSE IF edit.kind = "exponent"
    THEN ReplaceToken(is, edit.at, edit.token,
                      SuffixedToken(is[edit.at][edit.token], "e"))
    ELSE ReplaceToken(is, edit.at, edit.token,
                      FixedToken(is[edit.at][edit.token].value, 0))

\* the text written for a short list is edited by hand before it is read
EditOrbitalDefinitionText ==
    /\ call.op = "OrbitalDefinitionStr"
    /\ result = NoResult
    /\ Len(states) <= MaxEditLen
    /\ \E edit \in TextEdits(stream) :
          /\ stream' = EditedText(stream, edit)
          /\ call' = [op |-> "edited text", standalone |-> call.standalone,
                      edit |-> edit]
    /\ UNCHANGED <<shared, two_body, states, subspace_pn, subspace_ljpn, space_pn, space_ljpn,
                   ket_space_ljpn, sectors, result>>

TextCalls == {"OrbitalDefinitionStr", "edited text"}

ReadOrbitalPNStream ==
    /\ call.op \in TextCalls
    /\ result = NoResult
    /\ \E standalone \in BOOLEAN :
          result' = [op |-> "ParseOrbitalPNStream", standalone |-> standalone,
                     value |-> ParseOrbitalPNStream(stream, standalone)]
    /\ UNCHANGED objects

Next ==
    \/ ConstructOrbitalSubspacePN_Nmax
    \/ ConstructOrbitalSubspacePN_List
    \/ BeginOrbitalSubspacePN_List
    \/ StepOrbitalSubspacePN_List
    \/ EndOrbitalSubspacePN_List
    \/ ConstructBaseSpace
    \/ CopyBaseSpace
    \/ PushSubspaceThroughHandle
    \/ ConstructBaseSectors
    \/ ConstructOrbitalSubspaceLJPN_Nmax
    \/ ConstructOrbitalSubspaceLJPN_List
    \/ ConstructOrbitalSpacePN_Nmax
    \/ ConstructOrbitalSpacePN_List
    \/ ConstructOrbitalSpaceLJPN_Nmax
    \/ ConstructOrbitalSpaceLJPN_List
    \/ ConstructKetSpaceLJPN
    \/ ConstructSectors_AllToAll
    \/ ConstructSectors_Constrained
    \/ ConstructSectors_AllToAll2
    \/ ConstructSectors_Constrained2
    \/ QueryStateIndexPN
    \/ QueryBaseState_Index
    \/ QueryBaseState_Labels
    \/ QueryLookUpSubspace
    \/ QueryStateIndexLJPN
    \/ QuerySubspaceIndexPN
    \/ QuerySubspaceIndexLJPN
    \/ QuerySectorIndex
    \/ QueryGetSector
    \/ QueryMatrixElementIndicesLJPN
    \/ QueryMatrixElementLJPN
    \/ ConstructTwoBodySubspaceJJJPN
    \/ ConstructTwoBodySpaceJJJPN
    \/ ConstructOtherTwoBodySpaceJJJPN
    \/ ConstructTwoBodySectorsJJJPN
    \/ WriteOrbitalDefinitionStr
    \/ EditOrbitalDefinitionText
    \/ ReadOrbitalPNStream

Spec == Init /\ [][Next]_vars

----------------------------------------------------------------------------
(* Properties *)

\* the label <-> index round trip of a subspace
RoundTrip(subspace) ==
    \A i \in 0..(size(subspace) - 1) :
        LookUpStateIndex(subspace, GetStateLabels(subspace, i)) = i

\* two records of the list that go to the PN subspace of `species` carry
\* the same state labels (n,l,j)
RepeatedLabelsPN(list, species) ==
    \E a, b \in 1..Len(list) :
        /\ a < b
        /\ list[a].orbital_species = species /\ list[b].orbital_species = species
        /\ list[a].n = list[b].n /\ list[a].l = list[b].l /\ list[a].j = list[b].j

\* two records of the list that go to the LJPN subspace (species,l,j) carry
\* the same state label n
RepeatedLabelsLJPN(list, species, l, j) ==
    \E a, b \in 1..Len(list) :
        /\ a < b
        /\ list[a].orbital_species = species /\ list[b].orbital_species = species
        /\ list[a].l = l /\ list[b].l = l
        /\ list[a].j = j /\ list[b].j = j
        /\ list[a].n = list[b].n

\* C1 as stated: in every subspace built by a truncation-driven or a
\* list-driven constructor, from any orbital list, looking up the labels of
\* the state at index i returns i.
C1_RoundTripAnyList ==
    /\ call.op \in SubspacePNCalls => RoundTrip(subspace_pn)
    /\ call.op \in SubspaceLJPNCalls => RoundTrip(subspace_ljpn)

\* C1 (amended): in every subspace built by a truncation-driven constructor,
\* and in every subspace built by a list-driven constructor from a list in
\* which no two records of that subspace carry the same state labels,
\* looking up the labels of the state at index i returns i.
C1_RoundTrip ==
    /\ call.op = "OrbitalSubspacePN(species,Nmax)" => RoundTrip(subspace_pn)
    /\ (/\ call.op = "OrbitalSubspacePN(species,states)"
        /\ ~RepeatedLabelsPN(states, call.orbital_species))
         => RoundTrip(subspace_pn)
    /\ call.op = "OrbitalSubspaceLJPN(species,l,j,Nmax)" => RoundTrip(subspace_ljpn)
    /\ (/\ call.op = "OrbitalSubspaceLJPN(species,l,j,states)"
        /\ ~RepeatedLabelsLJPN(states, call.orbital_species, call.l, call.j))
         => RoundTrip(subspace_ljpn)

\* a list-driven PN subspace of three distinct states has been built
C1_Witness ==
    /\ call.op = "OrbitalSubspacePN(species,states)"
    /\ ~RepeatedLabelsPN(states, call.orbital_species)
    /\ size(subspace_pn) = 3

\* the space a sectors object was built from, as its ket space
SourceKetSpace ==
    IF call.op \in {"OrbitalSectorsLJPN(bra_space,ket_space)",
                    "OrbitalSectorsLJPN(bra_space,ket_space,l0max,Tz0)"}
    THEN ket_space_ljpn ELSE space_ljpn

\* C2: for a sectors object built by any of the four OrbitalSectorsLJPN
\* constructors and every sector index i < size(), GetSector(i) succeeds and
\* its bra and ket subspaces are the subspaces of the source spaces at the
\* sector's bra and ket subspace indices.
C2_GetSectorFromOwnedSpaces ==
    call.op \in SectorsCalls =>
        \A i \in 0..(SectorsSize(sectors) - 1) :
            LET got == GetSector(sectors, i)
            IN  /\ ~got.thrown
                /\ got.sector.bra_subspace
                     = GetSubspace(space_ljpn, got.sector.bra_subspace_index_)
                /\ got.sector.ket_subspace
                     = GetSubspace(SourceKetSpace, got.sector.ket_subspace_index_)

\* in the state: every lookup returns kNone exactly when the container does
\* not contain the labels or the key
LookupsAgree ==
    /\ \A labels \in ProbeStateLabelsPN :
          (LookUpStateIndex(subspace_pn, labels) = kNone)
             <=> ~ContainsState(subspace_pn, labels)
    /\ \A labels \in ProbeStateLabelsLJPN :
          (LookUpStateIndex(subspace_ljpn, labels) = kNone)
             <=> ~ContainsState(subspace_ljpn, labels)
    /\ \A labels \in ProbeSubspaceLabelsPN :
          (LookUpSubspaceIndex(space_pn, labels) = kNone)
             <=> ~ContainsSubspace(space_pn, labels)
    /\ \A labels \in ProbeSubspaceLabelsLJPN :
          (LookUpSubspaceIndex(space_ljpn, labels) = kNone)
             <=> ~ContainsSubspace(space_ljpn, labels)
    /\ \A key \in ProbeSectorKeys :
          (LookUpSectorIndex(sectors, key) = kNone)
             <=> ~ContainsSector(sectors, key[1], key[2], key[3])

LookupOps == {"LookUpStateIndex", "LookUpSubspaceIndex", "LookUpSectorIndex"}

\* C3: a lookup returns kNone exactly when the labels or the key are not
\* contained, a lookup of labels that were never pushed returns kNone, and a
\* lookup step leaves every subspace, space and sectors object as it was.
C3_LookupMiss ==
    [][/\ LookupsAgree'
       /\ (result' # result /\ result'.op \in LookupOps) =>
             /\ UNCHANGED <<shared, two_body, subspace_pn, subspace_ljpn, space_pn, space_ljpn,
                            ket_space_ljpn, sectors>>
             /\ (result'.on = "subspace_pn"
                   /\ \A i \in 0..(size(subspace_pn) - 1) :
                         GetStateLabels(subspace_pn, i) # result'.labels)
                  => result'.value = kNone
             /\ (result'.on = "space_ljpn"
                   /\ \A i \in 0..(SpaceSize(space_ljpn) - 1) :
                         GetSubspace(space_ljpn, i).labels_ # result'.labels)
                  => result'.value = kNone
             /\ (result'.on = "sectors"
                   /\ \A i \in 1..SectorsSize(sectors) :
                         sectors.keys_[i] # result'.labels)
                  => result'.value = kNone]_vars

\* a lookup of labels that are not in a non-empty subspace has returned kNone
C3_Witness ==
    /\ result.op = "LookUpStateIndex"
    /\ result.on = "subspace_pn"
    /\ size(subspace_pn) >= 2
    /\ result.value = kNone

\* subspace labels of a space are pairwise distinct and look up to their index
DistinctLabels(space) ==
    /\ \A a, b \in 0..(SpaceSize(space) - 1) :
          a # b => GetSubspace(space, a).labels_ # GetSubspace(space, b).labels_
    /\ \A i \in 0..(SpaceSize(space) - 1) :
          LookUpSubspaceIndex(space, GetSubspace(space, i).labels_) = i

\* C4: in every space produced by a constructor the subspace-label tuples
\* are pairwise distinct and LookUpSubspaceIndex(GetSubspace(i).labels()) = i.
C4_DistinctSubspaceLabels ==
    /\ DistinctLabels(space_pn)
    /\ DistinctLabels(space_ljpn)
    /\ DistinctLabels(ket_space_ljpn)

\* a list-driven PN space was built from a list with two records of one species
C4_Witness ==
    /\ call.op = "OrbitalSpacePN(states)"
    /\ SpaceSize(space_pn) = 2
    /\ Len(states) = 3

\* the (n,l,j) triples of the Nmax-truncated oscillator shells, j held doubled
ShellTriples(Nmax) ==
    {t \in (0..Nmax) \X (0..Nmax) \X (1..(2 * Nmax + 1)) :
        /\ t[3] = 2 * t[2] + 1 \/ t[3] = 2 * t[2] - 1
        /\ 2 * t[1] + t[2] <= Nmax}

\* C5: for every Nmax >= 0 the truncation-driven OrbitalSubspacePN holds
\* exactly the triples (n,l,j) with j = l+1/2 or j = l-1/2 >= 1/2 and
\* 2n+l <= Nmax, each once, in order of increasing N = 2n+l and within one N
\* of increasing j, with weight N; its size is (Nmax+1)(Nmax+2)/2.
C5_TruncationContent ==
    (call.op = "OrbitalSubspacePN(species,Nmax)" /\ call.Nmax >= 0) =>
        LET Nmax == call.Nmax
            table == subspace_pn.state_table_
            N(k) == 2 * table[k][1] + table[k][2]
        IN  /\ {table[k] : k \in 1..Len(table)} = ShellTriples(Nmax)
            /\ size(subspace_pn) = Cardinality(ShellTriples(Nmax))
            /\ 2 * size(subspace_pn) = (Nmax + 1) * (Nmax + 2)
            /\ Nmax = 0 => table = << <<0, 0, 1>> >>
            /\ \A a, b \in 1..Len(table) :
                  a < b => \/ N(a) < N(b)
                           \/ N(a) = N(b) /\ table[a][3] < table[b][3]
            /\ Len(subspace_pn.weights_) = Len(table)
            /\ \A k \in 1..Len(table) : subspace_pn.weights_[k] = Double(N(k))
            /\ subspace_pn.labels_ = <<call.orbital_species>>

\* a truncation-driven PN subspace of at least three shells has been built
C5_Witness ==
    /\ call.op = "OrbitalSubspacePN(species,Nmax)"
    /\ call.Nmax >= 2
    /\ size(subspace_pn) >= 6

\* OrbitalSpacePN(Nmax=4) holds the proton then the neutron subspace, each of
\* the given size
SpacePN4HasSizes(subspace_size) ==
    (call.op = "OrbitalSpacePN(Nmax)" /\ call.Nmax = 4) =>
        /\ SpaceSize(space_pn) = 2
        /\ GetSubspace(space_pn, 0).labels_ = <<kP>>
        /\ GetSubspace(space_pn, 1).labels_ = <<kN>>
        /\ size(GetSubspace(space_pn, 0)) = subspace_size
        /\ size(GetSubspace(space_pn, 1)) = subspace_size

\* C6 as stated: OrbitalSpacePN(Nmax=4) has exactly 2 subspaces, proton then
\* neutron, and each of them has size 6.
C6_SubspacesOfSizeSix == SpacePN4HasSizes(6)

\* C6 (amended): OrbitalSpacePN(Nmax=4) has exactly 2 subspaces, proton then
\* neutron, and each of them has size 15, the number of (n,l,j) with 2n+l <= 4.
C6_SubspacesOfSizeFifteen ==
    /\ SpacePN4HasSizes(15)
    /\ Cardinality(ShellTriples(4)) = 15

\* OrbitalSpacePN(Nmax=4) has been built
C6_Witness ==
    /\ call.op = "OrbitalSpacePN(Nmax)"
    /\ call.Nmax = 4
    /\ SpaceSize(space_pn) = 2

\* the records of the list that carry the given PN subspace labels, in order
RecordsOfPN(list, labels) ==
    LET Belongs(state) == state.orbital_species = labels[1]
    IN  SelectSeq(list, Belongs)

\* the records of the list that carry the given LJPN subspace labels, in order
RecordsOfLJPN(list, labels) ==
    LET Belongs(state) == /\ state.orbital_species = labels[1]
                          /\ state.l = labels[2]
                          /\ state.j = labels[3]
    IN  SelectSeq(list, Belongs)

\* C7: list-driven construction partitions the input list: each record lands
\* in exactly one subspace of OrbitalSpacePN(states), the one of its species,
\* and of OrbitalSpaceLJPN(states), the one of its species, l and j; the
\* records of a subspace keep their relative input order; no subspace is
\* empty; Dimension() is the length of the list.
C7_ListPartition ==
    /\ call.op = "OrbitalSpacePN(states)" =>
          /\ \A k \in 1..Len(states) :
                Cardinality({i \in 0..(SpaceSize(space_pn) - 1) :
                    GetSubspace(space_pn, i).labels_
                        = <<states[k].orbital_species>>}) = 1
          /\ \A i \in 0..(SpaceSize(space_pn) - 1) :
                LET subspace == GetSubspace(space_pn, i)
                IN  /\ OrbitalSubspacePN_OrbitalInfo(subspace)
                         = RecordsOfPN(states, subspace.labels_)
                    /\ size(subspace) > 0
          /\ Dimension(space_pn) = Len(states)
    /\ call.op = "OrbitalSpaceLJPN(states)" =>
          /\ \A k \in 1..Len(states) :
                Cardinality({i \in 0..(SpaceSize(space_ljpn) - 1) :
                    GetSubspace(space_ljpn, i).labels_
                        = <<states[k].orbital_species, states[k].l,
                            states[k].j>>}) = 1
          /\ \A i \in 0..(SpaceSize(space_ljpn) - 1) :
                LET subspace == GetSubspace(space_ljpn, i)
                IN  /\ OrbitalSubspaceLJPN_OrbitalInfo(subspace)
                         = RecordsOfLJPN(states, subspace.labels_)
                    /\ size(subspace) > 0
          /\ Dimension(space_ljpn) = Len(states)

\* a list of three records has been split into two LJPN subspaces
C7_Witness ==
    /\ call.op = "OrbitalSpaceLJPN(states)"
    /\ Len(states) = 3
    /\ SpaceSize(space_ljpn) = 2

\* the largest of a non-empty sequence of weights
MaxWeight(weights) ==
    CHOOSE w \in {weights[k] : k \in 1..Len(weights)} :
        \A k \in 1..Len(weights) : ~WLess(w, weights[k])

\* the subspace holds, state by state, the orbitals of the truncation-driven
\* OrbitalSubspacePN of its species for the given Nmax
MatchesTruncationPN(subspace, Nmax) ==
    OrbitalInfoEqual(
        OrbitalSubspacePN_OrbitalInfo(subspace),
        OrbitalSubspacePN_OrbitalInfo(
            OrbitalSubspacePN_Nmax(subspace.labels_[1], Nmax)))

\* C8: a list-driven OrbitalSubspacePN is tagged oscillator-like, with Nmax
\* its maximum weight, exactly when its orbital content matches that of the
\* truncation-driven OrbitalSubspacePN(species, Nmax) for that Nmax;
\* otherwise it is tagged not oscillator-like with Nmax = -1.
C8_OscillatorLikeSubspace ==
    call.op = "OrbitalSubspacePN(species,states)" =>
        /\ subspace_pn.is_oscillator_like_
             <=> \E Nmax \in 0..MaxNmax : MatchesTruncationPN(subspace_pn, Nmax)
        /\ subspace_pn.is_oscillator_like_ =>
              /\ Double(subspace_pn.Nmax_) = MaxWeight(subspace_pn.weights_)
              /\ MatchesTruncationPN(subspace_pn, subspace_pn.Nmax_)
        /\ ~subspace_pn.is_oscillator_like_ => subspace_pn.Nmax_ = -1

\* a list of the three Nmax=1 proton orbitals has been tagged oscillator-like
C8_Witness ==
    /\ call.op = "OrbitalSubspacePN(species,states)"
    /\ subspace_pn.is_oscillator_like_
    /\ subspace_pn.Nmax_ = 1
    /\ size(subspace_pn) = 3

\* C9 as stated: a list-driven OrbitalSpacePN is tagged oscillator-like with
\* recovered Nmax only if its content matches that of the truncation-driven
\* OrbitalSpacePN(Nmax): the same subspaces (proton and neutron) holding the
\* same orbitals.
C9_MatchesWholeSpace ==
    (call.op = "OrbitalSpacePN(states)" /\ space_pn.is_oscillator_like_) =>
        LET reference_space == OrbitalSpacePN_Nmax(space_pn.Nmax_)
        IN  /\ SpaceSize(space_pn) = SpaceSize(reference_space)
            /\ \A i \in 0..(SpaceSize(reference_space) - 1) :
                  /\ InRange(space_pn, i)
                  /\ GetSubspace(space_pn, i).labels_
                       = GetSubspace(reference_space, i).labels_
                  /\ OrbitalInfoEqual(
                         OrbitalSubspacePN_OrbitalInfo(GetSubspace(space_pn, i)),
                         OrbitalSubspacePN_OrbitalInfo(
                             GetSubspace(reference_space, i)))

\* C9 (amended): a list-driven OrbitalSpacePN is tagged oscillator-like with
\* recovered Nmax only if it holds at least one subspace and every subspace
\* it holds has exactly the orbitals of the truncation-driven
\* OrbitalSubspacePN(species, Nmax) of its species; a species without a
\* record in the list has no subspace.
C9_MatchesPerSubspace ==
    (call.op = "OrbitalSpacePN(states)" /\ space_pn.is_oscillator_like_) =>
        /\ SpaceSize(space_pn) >= 1
        /\ space_pn.Nmax_ >= 0
        /\ \A i \in 0..(SpaceSize(space_pn) - 1) :
              MatchesTruncationPN(GetSubspace(space_pn, i), space_pn.Nmax_)
        /\ \A species \in OrbitalSpeciesPN :
              ContainsSubspace(space_pn, <<species>>)
                 <=> \E k \in 1..Len(states) : states[k].orbital_species = species

\* a list holding proton orbitals only has been tagged oscillator-like
C9_Witness ==
    /\ call.op = "OrbitalSpacePN(states)"
    /\ space_pn.is_oscillator_like_
    /\ SpaceSize(space_pn) = 1
    /\ Dimension(space_pn) = 3

\* the weight is written out exactly by `precision` decimal digits
Representable(weight) ==
    weight.frac % Pow10(WeightFracDigits - precision) = 0

\* C10: for every orbital list whose weights are exactly representable with
\* 8 decimal digits and for both values of the standalone flag, parsing the
\* text written for the list with the same flag returns the input list,
\* element by element and in the same order.
C10_TextRoundTrip ==
    (/\ call.op = "OrbitalDefinitionStr"
     /\ result.op = "ParseOrbitalPNStream"
     /\ result.standalone = call.standalone
     /\ \A k \in 1..Len(states) : Representable(states[k].weight)) =>
        /\ result.value.status = "ok"
        /\ Len(result.value.states) = Len(states)
        /\ \A k \in 1..Len(states) :
              /\ result.value.states[k].n = states[k].n
              /\ result.value.states[k].l = states[k].l
              /\ result.value.states[k].j = states[k].j
              /\ result.value.states[k].orbital_species
                   = states[k].orbital_species
              /\ result.value.states[k].weight = states[k].weight

\* a standalone text of three orbitals of both species, one of fractional
\* weight, has been written and read back
C10_Witness ==
    /\ call.op = "OrbitalDefinitionStr"
    /\ call.standalone
    /\ result.op = "ParseOrbitalPNStream"
    /\ result.standalone
    /\ Len(states) = 3
    /\ \A k \in 1..Len(states) : Representable(states[k].weight)
    /\ \E k \in 1..Len(states) : states[k].weight.frac # 0
    /\ \E k \in 1..Len(states) : states[k].orbital_species = kP
    /\ result.value.status = "ok"

\* the whitespace-separated fields of a line
Fields(line) ==
    IF line # <<>> /\ line[1].kind = "blank" THEN Tail(line) ELSE line

\* number of records of the species among the first k records of the list
CountSpecies(list, k, species) ==
    Cardinality({i \in 1..k : list[i].orbital_species = species})

\* number of header lines of a written text
HeaderLines(standalone) == IF standalone THEN 6 ELSE 0

\* C11: in the text written by OrbitalDefinitionStr the k-th proton record
\* carries output index k and the k-th neutron record carries output index
\* k, whatever the interleaving of the species, and in standalone mode the
\* two header counts are the numbers of proton and neutron records written.
C11_OutputIndexPerSpecies ==
    call.op = "OrbitalDefinitionStr" =>
        LET header == HeaderLines(call.standalone)
        IN  /\ Len(stream) = header + Len(states)
            /\ \A k \in 1..Len(states) :
                  /\ Fields(stream[header + k])[1]
                       = IntToken(CountSpecies(states, k, states[k].orbital_species))
                  /\ Fields(stream[header + k])[5]
                       = IntToken(states[k].orbital_species + 1)
            /\ call.standalone =>
                  stream[header]
                     = <<IntToken(CountSpecies(states, Len(states), kP)),
                         IntToken(CountSpecies(states, Len(states), kN))>>

\* a standalone text has been written for a list that interleaves the species:
\* proton, neutron, proton
C11_Witness ==
    /\ call.op = "OrbitalDefinitionStr"
    /\ call.standalone
    /\ Len(states) = 3
    /\ states[1].orbital_species = kP
    /\ states[2].orbital_species = kN
    /\ states[3].orbital_species = kP
    /\ Fields(stream[HeaderLines(TRUE) + 3])[1] = IntToken(2)

\* the line at 1-based position `p` of a text; past the end, the empty line
LineAt(is, p) == IF p <= Len(is) THEN is[p] ELSE <<>>

\* the field is a numeral
IsNumeral(token) == token.kind \in {"int", "fixed"}

\* the field begins with a numeral: it is one, or one directly followed by
\* other text
BeginsWithNumeral(token) ==
    IsNumeral(token) \/ (token.kind = "suffixed" /\ IsNumeral(token.numeral))

\* the field begins with a numeral that has a decimal point
HasDecimalPoint(token) ==
    token.kind = "fixed"
      \/ (token.kind = "suffixed" /\ token.numeral.kind = "fixed")

\* the field is a numeral directly followed by an e or E
ExponentFollows(token) ==
    token.kind = "suffixed" /\ SubSeq(token.text, 1, 1) \in {"e", "E"}

\* the integer in front of a field that begins with a numeral: the digits
\* in front of the point of a decimal one
IntegerPart(token) ==
    LET numeral == IF token.kind = "suffixed" THEN token.numeral ELSE token
    IN  IF numeral.kind = "int" THEN numeral.value
        ELSE IF numeral.int < 0 /\ numeral.digits > 0 THEN numeral.int + 1
        ELSE numeral.int

\* `ints` integers can be read from the line: it has `ints` fields, the
\* first ints - 1 are integer numerals and the last begins with a numeral
ReadsInts(line, ints) ==
    LET fields == Fields(line)
    IN  /\ Len(fields) >= ints
        /\ \A k \in 1..(ints - 1) : fields[k].kind = "int"
        /\ BeginsWithNumeral(fields[ints])

\* an orbital definition can be read from the line: an index, n, l and
\* twice j as integer numerals, and then either a species field with a
\* decimal point, read as the species and the weight, or a species code and
\* a field that begins with a numeral; no e or E directly behind the
\* numeral the weight is read from
ReadsDefinition(line) ==
    LET fields == Fields(line)
    IN  /\ Len(fields) >= 5
        /\ \A k \in 1..4 : fields[k].kind = "int"
        /\ \/ HasDecimalPoint(fields[5]) /\ ~ExponentFollows(fields[5])
           \/ /\ fields[5].kind = "int"
              /\ Len(fields) >= 6
              /\ BeginsWithNumeral(fields[6])
              /\ ~ExponentFollows(fields[6])

\* number of leading lines that begin with '#'
CommentPrefix(is) ==
    CHOOSE c \in 0..Len(is) :
        /\ \A i \in 1..c : IsComment(is[i])
        /\ c < Len(is) => ~IsComment(is[c + 1])

\* positions of the body lines of a text whose body starts at `from`
BodyPositions(is, from) == {p \in from..Len(is) : is[p] # <<>>}

\* an orbital definition can be read from every line of the body from
\* `from` on that is not empty
BodyWellFormed(is, from) ==
    \A p \in BodyPositions(is, from) : ReadsDefinition(is[p])

\* number of records of a species in a well-formed body
BodyCount(is, from, species) ==
    Cardinality({p \in BodyPositions(is, from) :
                    IntegerPart(Fields(is[p])[5]) = species + 1})

\* the header after `c` comment lines can be read and carries the right
\* version
HeaderWellFormed(is, c) ==
    /\ ReadsInts(LineAt(is, c + 1), 1)
    /\ IntegerPart(Fields(LineAt(is, c + 1))[1]) = kVersion
    /\ ReadsInts(LineAt(is, c + 2), 2)

\* the proton (k = 1) or neutron (k = 2) count the header declares
DeclaredCount(is, c, k) == IntegerPart(Fields(is[c + 2])[k])

\* C12: a standalone read whose header and body lines all parse but whose
\* declared proton or neutron count differs from the number of proton or
\* neutron records in the body ends in a failed assertion and gives no
\* orbital list; a non-standalone read checks no count: a text of
\* well-formed lines always gives a list, one record per line.
C12_CountMismatchIsFatal ==
    result.op = "ParseOrbitalPNStream" =>
        LET c == CommentPrefix(stream)
        IN  /\ ( /\ result.standalone
                 /\ HeaderWellFormed(stream, c)
                 /\ BodyWellFormed(stream, c + 3)
                 /\ \/ DeclaredCount(stream, c, 1) # BodyCount(stream, c + 3, kP)
                    \/ DeclaredCount(stream, c, 2) # BodyCount(stream, c + 3, kN) )
                 => result.value = [status |-> "assertion_failed"]
            /\ (~result.standalone /\ BodyWellFormed(stream, 1))
                 => /\ result.value.status = "ok"
                    /\ Len(result.value.states)
                         = Cardinality(BodyPositions(stream, 1))

\* a standalone text that lost one of its orbital definition lines has been
\* read standalone, and the read ended in the failed count assertion
C12_Witness ==
    /\ call.op = "edited text"
    /\ call.edit.kind = "delete"
    /\ call.edit.at > HeaderLines(TRUE)
    /\ call.standalone
    /\ result.op = "ParseOrbitalPNStream"
    /\ result.standalone
    /\ result.value.status = "assertion_failed"

\* the line begins with `ints` integer numerals
BeginsWithInts(line, ints) ==
    LET fields == Fields(line)
    IN  Len(fields) >= ints /\ \A k \in 1..ints : fields[k].kind = "int"

\* the line is an orbital definition line: an index, n, l, twice j, a
\* species code and a weight
IsDefinitionLine(line) ==
    /\ BeginsWithInts(line, 5)
    /\ Len(Fields(line)) >= 6
    /\ IsNumeral(Fields(line)[6])

\* the numeric fields of the line at position `p` of a standalone text with
\* `c` leading comment lines do not parse
Malformed(is, c, p) ==
    IF p = c + 1 THEN ~BeginsWithInts(LineAt(is, p), 1)
    ELSE IF p = c + 2 THEN ~BeginsWithInts(LineAt(is, p), 2)
    ELSE LineAt(is, p) # <<>> /\ ~IsDefinitionLine(LineAt(is, p))

\* C13: a standalone read skips the leading lines that begin with '#'; when
\* the numeric fields of a header or body line do not parse (a field is
\* missing or is not a numeral), it fails on the first such line, reporting
\* that line's 1-based position in the text (comment lines and blank lines
\* counted) and the line itself, and gives no orbital list. (A header read
\* fails on a missing line as on an empty one; a version line is only
\* followed by further reads when it carries the expected version.)
C13_ParsingErrorPosition ==
    (result.op = "ParseOrbitalPNStream" /\ result.standalone) =>
        LET c == CommentPrefix(stream)
            last == IF Len(stream) > c + 2 THEN Len(stream) ELSE c + 2
            bad == {p \in (c + 1)..last : Malformed(stream, c, p)}
        IN  /\ \A p \in bad :
                  ( /\ \A q \in bad : p <= q
                    /\ p > c + 1
                         => Fields(LineAt(stream, c + 1))[1] = IntToken(kVersion) )
                  => result.value = [status |-> "parsing_error",
                                     line_count |-> p,
                                     line |-> LineAt(stream, p)]
            /\ result.value.status = "parsing_error"
                 => /\ result.value.line_count \in bad
                    /\ DOMAIN result.value = {"status", "line_count", "line"}

\* C14: zero-size inputs give empty results: for Nmax < 0 the
\* truncation-driven PN and LJPN subspaces have size 0 and the
\* truncation-driven PN and LJPN spaces have dimension 0, and a list-driven
\* subspace for a species without a record in the list has size 0. (Every
\* construction ends with an object: none fails.)
C14_ZeroSizeInputs ==
    /\ (call.op = "OrbitalSubspacePN(species,Nmax)" /\ call.Nmax < 0)
          => size(subspace_pn) = 0 /\ subspace_pn.state_table_ = <<>>
    /\ (call.op = "OrbitalSubspaceLJPN(species,l,j,Nmax)" /\ call.Nmax < 0)
          => size(subspace_ljpn) = 0 /\ subspace_ljpn.state_table_ = <<>>
    /\ (call.op = "OrbitalSpacePN(Nmax)" /\ call.Nmax < 0)
          => Dimension(space_pn) = 0
    /\ (call.op = "OrbitalSpaceLJPN(Nmax)" /\ call.Nmax < 0)
          => Dimension(space_ljpn) = 0
    /\ ( /\ call.op = "OrbitalSubspacePN(species,states)"
         /\ CountSpecies(states, Len(states), call.orbital_species) = 0 )
          => size(subspace_pn) = 0
    /\ ( /\ call.op = "OrbitalSubspaceLJPN(species,l,j,states)"
         /\ CountSpecies(states, Len(states), call.orbital_species) = 0 )
          => size(subspace_ljpn) = 0

\* an LJPN subspace has been built for a negative Nmax, and it is empty
C14_Witness ==
    /\ call.op = "OrbitalSubspaceLJPN(species,l,j,Nmax)"
    /\ call.Nmax < 0
    /\ size(subspace_ljpn) = 0

\* the sector of the subspaces of the two label tuples is missing: a
\* subspace is absent from its space, or the pair is not in the sectors
MissingSector(bra_labels, ket_labels) ==
    LET bra_subspaces ==
            {i \in 1..SpaceSize(space_ljpn) :
                space_ljpn.subspaces_[i].labels_
                   = <<bra_labels[1], bra_labels[3], bra_labels[4]>>}
        ket_subspaces ==
            {i \in 1..SpaceSize(SectorsKetSpace) :
                SectorsKetSpace.subspaces_[i].labels_
                   = <<ket_labels[1], ket_labels[3], ket_labels[4]>>}
    IN  \A b \in bra_subspaces, k \in ket_subspaces :
            \A s \in 1..SectorsSize(sectors) :
                sectors.keys_[s] # <<b - 1, k - 1, 1>>

\* C15: for bra and ket labels whose sector is missing,
\* MatrixElementIndicesLJPN returns kNone three times, and MatrixElementLJPN
\* prints the missing-sector diagnostic with the two states' labels and
\* ends the process without reading a matrix entry.
C15_MissingSectorIsFatal ==
    /\ (result.op = "MatrixElementIndicesLJPN"
          /\ MissingSector(result.bra, result.ket))
          => result.value = [thrown |-> FALSE, value |-> <<kNone, kNone, kNone>>]
    /\ (result.op = "MatrixElementLJPN"
          /\ MissingSector(result.bra, result.ket))
          => result.value
               = [outcome |-> "exit",
                  diagnostic |-> Diagnostic("missing sector",
                                            result.bra, result.ket),
                  read |-> <<>>]

\* a matrix element has been looked up in non-empty sectors for a bra
\* orbital whose subspace is in the space and a ket orbital whose subspace
\* is not, and the process has ended
C15_Witness ==
    /\ result.op = "MatrixElementLJPN"
    /\ SectorsSize(sectors) > 0
    /\ result.bra = <<kP, 0, 0, 1>>
    /\ result.ket = <<kP, 0, 5, 9>>
    /\ LookUpSubspaceIndex(space_ljpn, <<kP, 0, 1>>) # kNone
    /\ LookUpSubspaceIndex(SectorsKetSpace, <<kP, 5, 9>>) = kNone
    /\ result.value.outcome = "exit"

\* the radial quantum number of the labels is not below the size of their
\* subspace in the space
RadialOverrun(space, labels) ==
    \E i \in 1..SpaceSize(space) :
        /\ space.subspaces_[i].labels_ = <<labels[1], labels[3], labels[4]>>
        /\ labels[2] >= size(space.subspaces_[i])

\* C16: when the sector of the bra and ket orbitals exists but the radial
\* quantum number of the bra or of the ket is not below the size of its
\* LJPN subspace, MatrixElementLJPN prints the overrun diagnostic and ends
\* the process, and reads no matrix entry.
C16_RadialOverrunIsFatal ==
    ( /\ result.op = "MatrixElementLJPN"
      /\ ~MissingSector(result.bra, result.ket)
      /\ \/ RadialOverrun(space_ljpn, result.bra)
         \/ RadialOverrun(SectorsKetSpace, result.ket) )
      => /\ result.value.outcome = "exit"
         /\ result.value.diagnostic
              = Diagnostic("radial quantum number not found in orbital subspace",
                           result.bra, result.ket)
         /\ result.value.read = <<>>

\* the subspace of an orbital species in the PN orbital space
SpeciesSubspace(orbital_species) ==
    CHOOSE subspace \in {space_pn.subspaces_[i] : i \in 1..SpaceSize(space_pn)} :
        subspace.labels_ = <<orbital_species>>

\* orbital `index` of a species, as [n, l, j, weight] with j doubled
Orbital(orbital_species, index) ==
    LET subspace == SpeciesSubspace(orbital_species)
    IN  [n |-> subspace.state_table_[index + 1][1],
         l |-> subspace.state_table_[index + 1][2],
         j |-> subspace.state_table_[index + 1][3],
         weight |-> subspace.weights_[index + 1]]

\* the pairs of orbital indices that are states of the two-body subspace of
\* the labels (species, J, g) under the weight ceilings
AllowedPairs(species, J, g, weight_max) ==
    LET species1 == IF species = kNN THEN kN ELSE kP
        species2 == IF species = kPP THEN kP ELSE kN
        identical == species \in {kPP, kNN}
    IN  {pair \in (0..(size(SpeciesSubspace(species1)) - 1))
                    \X (0..(size(SpeciesSubspace(species2)) - 1)) :
            LET o1 == Orbital(species1, pair[1])
                o2 == Orbital(species2, pair[2])
            IN  /\ identical => pair[1] <= pair[2]
                /\ Abs(o1.j - o2.j) <= 2 * J
                /\ 2 * J <= o1.j + o2.j
                /\ (o1.l + o2.l) % 2 = g
                /\ (identical /\ pair[1] = pair[2]) => J % 2 = 0
                /\ WLessEq(o1.weight, weight_max.one_body[species1 + 1])
                /\ WLessEq(o2.weight, weight_max.one_body[species2 + 1])
                /\ WLessEq(WAdd(o1.weight, o2.weight),
                           weight_max.two_body[species + 1])}

\* the states of a subspace are the given pairs, each once, in strictly
\* increasing lexicographic order
ListsInOrder(subspace, pairs) ==
    /\ size(subspace) = Len(subspace.state_table_)
    /\ {subspace.state_table_[k] : k \in 1..Len(subspace.state_table_)} = pairs
    /\ \A k \in 1..(Len(subspace.state_table_) - 1) :
          TupleLess(subspace.state_table_[k], subspace.state_table_[k + 1])

\* C17: the states of a TwoBodySubspaceJJJPN are exactly the pairs (index1,
\* index2) of orbital indices of the two particles' species that satisfy
\* index1 <= index2 for pp/nn, triangularity with J, parity g, even J for
\* two identical orbitals, and the one-body and two-body weight ceilings;
\* each pair is listed once, in strictly increasing lexicographic order.
C17_StatesOfSubspace ==
    call.op = "TwoBodySubspaceJJJPN" =>
        ListsInOrder(two_body_subspace,
                     AllowedPairs(call.two_body_species, call.J, call.g,
                                  call.weight_max))

\* a pp subspace has been built that keeps a pair of different orbitals in
\* canonical order and leaves out a pair for a weight above a ceiling
C17_Witness ==
    /\ call.op = "TwoBodySubspaceJJJPN"
    /\ call.two_body_species = kPP
    /\ \E k \in 1..size(two_body_subspace) :
          two_body_subspace.state_table_[k][1] < two_body_subspace.state_table_[k][2]
    /\ \E pair \in AllowedPairs(kPP, call.J, call.g,
                                WeightMax_N1N2(MaxTwoBodyNmax, 2 * MaxTwoBodyNmax)) :
          pair \notin AllowedPairs(kPP, call.J, call.g, call.weight_max)

\* the states of the two-body subspace, as a set
TwoBodyStates ==
    {two_body_subspace.state_table_[k] : k \in 1..size(two_body_subspace)}

\* orbital `index` couples with itself to (J, g): 0 <= J <= 2j and 2l = g mod 2
CouplesWithItself(orbital_species, index, J, g) ==
    LET o == Orbital(orbital_species, index)
    IN  0 <= J /\ J <= o.j /\ (2 * o.l) % 2 = g

\* orbital `index` taken twice is within the weight ceilings
TwiceWithinCeilings(orbital_species, index, species, weight_max) ==
    LET o == Orbital(orbital_species, index)
    IN  /\ WLessEq(o.weight, weight_max.one_body[orbital_species + 1])
        /\ WLessEq(WAdd(o.weight, o.weight), weight_max.two_body[species + 1])

\* C18 as stated: in a pp or nn subspace with J odd no state has index1 =
\* index2; with J even the state (i, i) is present if and only if orbital i
\* satisfies triangularity and parity against itself.
C18_DiagonalStatesAsStated ==
    (call.op = "TwoBodySubspaceJJJPN" /\ call.two_body_species \in {kPP, kNN}) =>
        LET orbital_species == IF call.two_body_species = kPP THEN kP ELSE kN
            indices == 0..(size(SpeciesSubspace(orbital_species)) - 1)
        IN  /\ call.J % 2 = 1 => \A i \in indices : <<i, i>> \notin TwoBodyStates
            /\ call.J % 2 = 0 =>
                  \A i \in indices :
                      <<i, i>> \in TwoBodyStates
                         <=> CouplesWithItself(orbital_species, i, call.J, call.g)

\* C18, amended: in a pp or nn subspace with J odd no state has index1 =
\* index2; with J even the state (i, i) is present if and only if orbital i
\* satisfies triangularity and parity against itself and is within the
\* weight ceilings: its weight is not above the one-body ceiling of its
\* species and twice its weight is not above the two-body ceiling.
C18_DiagonalStates ==
    (call.op = "TwoBodySubspaceJJJPN" /\ call.two_body_species \in {kPP, kNN}) =>
        LET orbital_species == IF call.two_body_species = kPP THEN kP ELSE kN
            indices == 0..(size(SpeciesSubspace(orbital_species)) - 1)
        IN  /\ call.J % 2 = 1 => \A i \in indices : <<i, i>> \notin TwoBodyStates
            /\ call.J % 2 = 0 =>
                  \A i \in indices :
                      <<i, i>> \in TwoBodyStates
                         <=> /\ CouplesWithItself(orbital_species, i,
                                                  call.J, call.g)
                             /\ TwiceWithinCeilings(orbital_species, i,
                                                    call.two_body_species,
                                                    call.weight_max)

\* a pp subspace with even J has been built that holds a state of one
\* orbital taken twice and leaves out another orbital, which couples with
\* itself to (J, g), for its weight
C18_Witness ==
    /\ call.op = "TwoBodySubspaceJJJPN"
    /\ call.two_body_species = kPP
    /\ call.J % 2 = 0
    /\ \E i \in 0..(size(SpeciesSubspace(kP)) - 1) : <<i, i>> \in TwoBodyStates
    /\ \E i \in 0..(size(SpeciesSubspace(kP)) - 1) :
          /\ CouplesWithItself(kP, i, call.J, call.g)
          /\ <<i, i>> \notin TwoBodyStates

\* place of a species in an ordering: {pp, nn, pn} or {pp, pn, nn}
SpeciesPlace(species, ordering) ==
    IF species = kPP THEN 0
    ELSE IF ordering = "kPN" THEN (IF species = kNN THEN 1 ELSE 2)
    ELSE (IF species = kPN THEN 1 ELSE 2)

\* the ordering that is not the given one
OtherOrdering(ordering) == IF ordering = "kPN" THEN "kTz" ELSE "kPN"

\* two labels are indexed by a space in the order of its species ordering:
\* within a species as in any ordering, across species by the species' place
IndexedInOrder(space, ordering, a, b) ==
    LookUpSubspaceIndex(space, a) < LookUpSubspaceIndex(space, b)
      <=> TupleLess(<<SpeciesPlace(a[1], ordering), a[2], a[3]>>,
                    <<SpeciesPlace(b[1], ordering), b[2], b[3]>>)

\* C20: the spaces built over the same orbital space and weight ceilings in
\* PN-major and in Tz-major ordering hold the same subspace labels and, for
\* each label, the same state list; the subspace indices differ by the
\* permutation of the species order only, and the dimensions are equal.
C20_OrderingsAgree ==
    call.op = "TwoBodySpaceJJJPN in both orderings" =>
        /\ DOMAIN two_body_space.lookup_ = DOMAIN other_two_body_space.lookup_
        /\ SpaceSize(two_body_space) = SpaceSize(other_two_body_space)
        /\ \A labels \in DOMAIN two_body_space.lookup_ :
              LET mine == GetSubspace(two_body_space,
                                      LookUpSubspaceIndex(two_body_space, labels))
                  other == GetSubspace(other_two_body_space,
                                       LookUpSubspaceIndex(other_two_body_space,
                                                           labels))
              IN  /\ mine.labels_ = labels
                  /\ other.labels_ = labels
                  /\ mine.state_table_ = other.state_table_
        /\ \A a \in DOMAIN two_body_space.lookup_,
              b \in DOMAIN two_body_space.lookup_ :
              /\ IndexedInOrder(two_body_space, call.ordering, a, b)
              /\ IndexedInOrder(other_two_body_space,
                                OtherOrdering(call.ordering), a, b)
        /\ Dimension(two_body_space) = Dimension(other_two_body_space)

\* a space has been built in both orderings, it holds nn and pn subspaces,
\* and an nn subspace has different indices in the two
C20_Witness ==
    /\ call.op = "TwoBodySpaceJJJPN in both orderings"
    /\ Dimension(two_body_space) > 0
    /\ \E a \in DOMAIN two_body_space.lookup_,
          b \in DOMAIN two_body_space.lookup_ :
          /\ a[1] = kNN
          /\ b[1] = kPN
          /\ LookUpSubspaceIndex(two_body_space, a)
               # LookUpSubspaceIndex(other_two_body_space, a)

\* the pairs of subspace indices of the two-body space an operator (J0, g0,
\* Tz0) connects, the canonical half only when the direction is kCanonical
ConnectedPairs(space, J0, g0, Tz0, sector_direction) ==
    {pair \in (0..(SpaceSize(space) - 1)) \X (0..(SpaceSize(space) - 1)) :
        LET bra == space.subspaces_[pair[1] + 1].labels_
            ket == space.subspaces_[pair[2] + 1].labels_
            Tz(species) == IF species = kPP THEN 1
                           ELSE IF species = kNN THEN -1 ELSE 0
        IN  /\ Abs(bra[2] - ket[2]) <= J0
            /\ J0 <= bra[2] + ket[2]
            /\ (bra[3] + g0 + ket[3]) % 2 = 0
            /\ Abs(Tz(bra[1]) - Tz(ket[1])) <= Tz0
            /\ sector_direction = kCanonical => pair[1] <= pair[2]}

\* C21: the sectors of TwoBodySectorsJJJPN(space, J0, g0, Tz0, direction)
\* are exactly the pairs (bra, ket) of subspace indices with |J_bra - J_ket|
\* <= J0 <= J_bra + J_ket, g_bra + g0 + g_ket even and |Tz_bra - Tz_ket| <=
\* Tz0, with bra <= ket under kCanonical; each pair is there once, with
\* multiplicity index 1, and the pairs are in lexicographic (bra, ket) order.
C21_TwoBodySectors ==
    call.op = "TwoBodySectorsJJJPN" =>
        LET keys == two_body_sectors.keys_
        IN  /\ {<<keys[s][1], keys[s][2]>> : s \in 1..Len(keys)}
                 = ConnectedPairs(two_body_space, call.J0, call.g0, call.Tz0,
                                  call.sector_direction)
            /\ \A s \in 1..Len(keys) : keys[s][3] = 1
            /\ \A s \in 1..(Len(keys) - 1) :
                  TupleLess(<<keys[s][1], keys[s][2]>>,
                            <<keys[s + 1][1], keys[s + 1][2]>>)

\* canonical two-body sectors have been built for an operator that changes
\* J and Tz, and a connected pair of subspaces is left out for its order
C21_Witness ==
    /\ call.op = "TwoBodySectorsJJJPN"
    /\ call.sector_direction = kCanonical
    /\ call.J0 > 0
    /\ call.Tz0 = 1
    /\ SectorsSize(two_body_sectors) > 1
    /\ \E pair \in ConnectedPairs(two_body_space, call.J0, call.g0, call.Tz0, kBoth) :
          /\ pair[1] > pair[2]
          /\ <<pair[1], pair[2], 1>> \notin DOMAIN two_body_sectors.lookup_
          /\ <<pair[2], pair[1], 1>> \in DOMAIN two_body_sectors.lookup_

ConstrainedSectorsCalls ==
    {"OrbitalSectorsLJPN(space,l0max,Tz0,direction)",
     "OrbitalSectorsLJPN(bra_space,ket_space,l0max,Tz0)"}

\* an operator of character (l0max, Tz0) connects the LJPN subspaces of the
\* labels <<species, l, 2j>>: delta-l, delta-j, delta-Tz and parity
LJPNConnected(bra, ket, l0max, Tz0) ==
    LET Tz2(species) == IF species = kP THEN 1 ELSE -1
    IN  /\ Abs(bra[2] - ket[2]) <= l0max
        /\ Abs(bra[3] - ket[3]) <= 2 * l0max
        /\ Abs(Tz2(bra[1]) - Tz2(ket[1])) <= 2 * Tz0
        /\ ((ket[2] % 2) + (l0max % 2) + (bra[2] % 2)) % 2 = 0

\* C22: in the constrained OrbitalSectorsLJPN enumerations every sector
\* satisfies |l_bra - l_ket| <= l0max, |j_bra - j_ket| <= l0max, |Tz_bra -
\* Tz_ket| <= Tz0 and g_ket + (l0max mod 2) + g_bra even, and every pair of
\* subspaces that satisfies these (with bra index <= ket index under
\* kCanonical) is a sector.
C22_ConstrainedSectors ==
    call.op \in ConstrainedSectorsCalls =>
        LET canonical == call.op = "OrbitalSectorsLJPN(space,l0max,Tz0,direction)"
                           /\ call.sector_direction = kCanonical
            connected ==
                {pair \in (0..(SpaceSize(space_ljpn) - 1))
                            \X (0..(SpaceSize(SourceKetSpace) - 1)) :
                    /\ LJPNConnected(GetSubspace(space_ljpn, pair[1]).labels_,
                                     GetSubspace(SourceKetSpace, pair[2]).labels_,
                                     call.l0max, call.Tz0)
                    /\ canonical => pair[1] <= pair[2]}
        IN  {<<sectors.keys_[s][1], sectors.keys_[s][2]>> :
                s \in 1..SectorsSize(sectors)} = connected

AllToAllSectorsCalls ==
    {"OrbitalSectorsLJPN(space,direction)",
     "OrbitalSectorsLJPN(bra_space,ket_space)"}

\* the sector the constructor pushed at sector index s - 1
PushedSector(s) ==
    LET key == sectors.keys_[s]
    IN  BaseSector(key[1], key[2], GetSubspace(space_ljpn, key[1]),
                   GetSubspace(SourceKetSpace, key[2]), key[3])

\* (bra, ket) of key a comes before (bra, ket) of key b
LexicographicallyBefore(a, b) ==
    a[1] < b[1] \/ (a[1] = b[1] /\ a[2] < b[2])

\* C23: the all-to-all OrbitalSectorsLJPN enumeration lists the sectors in
\* lexicographic (bra, ket) order; over one space of S subspaces it has S*S
\* sectors under kBoth and S*(S+1)/2 sectors, all in the upper triangle,
\* under kCanonical; over a bra space of B and a ket space of K subspaces it
\* has B*K sectors.
C23_AllToAllSectors ==
    call.op \in AllToAllSectorsCalls =>
        LET S == SpaceSize(space_ljpn)
            K == SpaceSize(SourceKetSpace)
            n == SectorsSize(sectors)
        IN  /\ \A s \in 1..(n - 1) :
                  LexicographicallyBefore(sectors.keys_[s], sectors.keys_[s + 1])
            /\ call.op = "OrbitalSectorsLJPN(bra_space,ket_space)" => n = S * K
            /\ (call.op = "OrbitalSectorsLJPN(space,direction)"
                  /\ call.sector_direction = kBoth) => n = S * S
            /\ (call.op = "OrbitalSectorsLJPN(space,direction)"
                  /\ call.sector_direction = kCanonical) =>
                  /\ 2 * n = S * (S + 1)
                  /\ \A s \in 1..n : IsUpperTriangle(PushedSector(s))

C23_Witness ==
    /\ call.op = "OrbitalSectorsLJPN(space,direction)"
    /\ call.sector_direction = kCanonical
    /\ SpaceSize(space_ljpn) = 6
    /\ SectorsSize(sectors) = 21

\* keys pairwise distinct, each key looks up to its index, every key has the
\* default multiplicity index 1 and is found by ContainsSector
KeysRoundTrip(sectors_) ==
    \A i \in 0..(SectorsSize(sectors_) - 1) :
        LET key == sectors_.keys_[i + 1]
        IN  /\ \A k \in 0..(SectorsSize(sectors_) - 1) :
                  sectors_.keys_[k + 1] = key => k = i
            /\ LookUpSectorIndex(sectors_, key) = i
            /\ key[3] = 1
            /\ ContainsSector(sectors_, key[1], key[2], 1)

\* GetSector(i) returns a sector whose key looks up to i
SectorsRoundTrip(sectors_) ==
    \A i \in 0..(SectorsSize(sectors_) - 1) :
        LET got == GetSector(sectors_, i)
        IN  /\ ~got.thrown
            /\ LookUpSectorIndex(sectors_, Key(got.sector)) = i

\* C24: in every sectors object built by a constructor the keys are pairwise
\* distinct, LookUpSectorIndex(GetSector(i).Key()) = i for every i < size(),
\* every sector pushed without a multiplicity index has multiplicity index
\* 1, and ContainsSector(bra, ket) with the default multiplicity finds it.
C24_SectorKeysRoundTrip ==
    /\ call.op \in SectorsCalls =>
          KeysRoundTrip(sectors) /\ SectorsRoundTrip(sectors)
    /\ call.op = "TwoBodySectorsJJJPN" =>
          KeysRoundTrip(two_body_sectors) /\ SectorsRoundTrip(two_body_sectors)

\* the part of C24 that does not retrieve a sector
C24_KeysOnly ==
    /\ call.op \in SectorsCalls => KeysRoundTrip(sectors)
    /\ call.op = "TwoBodySectorsJJJPN" =>
          KeysRoundTrip(two_body_sectors) /\ SectorsRoundTrip(two_body_sectors)

\* the state labels pushed while the first k records of the list were read
PushedLabels(list, orbital_species, k) ==
    LET taken == SelectSeq(SubSeq(list, 1, k),
                           LAMBDA state : state.orbital_species = orbital_species)
    IN  [i \in 1..Len(taken) |-> <<taken[i].n, taken[i].l, taken[i].j>>]

\* one pass of the constructor's loop body
LoopPass ==
    /\ call.op = "OrbitalSubspacePN(species,states) loop"
    /\ call'.op = "OrbitalSubspacePN(species,states) loop"
    /\ call'.next = call.next + 1

\* after the pass: size() is the number of pushes, the labels at every index
\* are those of the push of that number, and the labels at the earlier
\* indices are as before
InsertionOrder ==
    LET pushes == PushedLabels(states, call.orbital_species, call.next)
    IN  /\ size(subspace_pn') = Len(pushes)
        /\ \A i \in 0..(size(subspace_pn') - 1) :
              GetStateLabels(subspace_pn', i) = pushes[i + 1]
        /\ size(subspace_pn) <= size(subspace_pn')
        /\ \A i \in 0..(size(subspace_pn) - 1) :
              GetStateLabels(subspace_pn', i) = GetStateLabels(subspace_pn, i)

\* the pass pushed labels that were in the subspace already
PushedAgain(labels) ==
    /\ size(subspace_pn') = size(subspace_pn) + 1
    /\ GetStateLabels(subspace_pn', size(subspace_pn)) = labels

\* C25 as stated: after any sequence of PushStateLabels calls size() is the
\* number of pushes, GetStateLabels(i) is the labels of the (i+1)-th push,
\* and a later push changes neither the labels at an earlier index nor the
\* index LookUpStateIndex returns for labels pushed earlier.
C25_StableIndicesAsStated ==
    [][LoopPass =>
          /\ InsertionOrder
          /\ \A i \in 0..(size(subspace_pn) - 1) :
                LookUpStateIndex(subspace_pn', GetStateLabels(subspace_pn, i))
                  = LookUpStateIndex(subspace_pn, GetStateLabels(subspace_pn, i))
      ]_vars

\* C25 (amended): size() is the number of pushes, GetStateLabels(i) is the
\* labels of the (i+1)-th push, and a later push never changes the labels
\* at an earlier index; it leaves the index LookUpStateIndex returns for
\* labels pushed earlier as it was unless it pushes those same labels
\* again, and then LookUpStateIndex returns the index of the new push.
\* After the loop the subspace is the one the constructor builds.
C25_StableIndices ==
    [][/\ LoopPass =>
             /\ InsertionOrder
             /\ \A i \in 0..(size(subspace_pn) - 1) :
                   LET labels == GetStateLabels(subspace_pn, i)
                   IN  LookUpStateIndex(subspace_pn', labels)
                         = IF PushedAgain(labels) THEN size(subspace_pn)
                           ELSE LookUpStateIndex(subspace_pn, labels)
       /\ (/\ call.op = "OrbitalSubspacePN(species,states) loop"
           /\ call'.op = "OrbitalSubspacePN(species,states)") =>
             subspace_pn' = OrbitalSubspacePN_List(call.orbital_species, states)
      ]_vars

\* three records have been pushed, the third with the labels of the first
C25_Witness ==
    /\ call.op = "OrbitalSubspacePN(species,states) loop"
    /\ size(subspace_pn) = 3
    /\ GetStateLabels(subspace_pn, 2) = GetStateLabels(subspace_pn, 0)
    /\ GetStateLabels(subspace_pn, 1) # GetStateLabels(subspace_pn, 0)
    /\ LookUpStateIndex(subspace_pn, GetStateLabels(subspace_pn, 0)) = 2
    /\ LookUpStateIndex(subspace_pn, GetStateLabels(subspace_pn, 1)) = 1

\* the two spaces answer every query alike: size, subspaces by index and
\* label lookups
SameAnswers(a, b) ==
    /\ SpaceSize(a) = SpaceSize(b)
    /\ \A i \in 0..(SpaceSize(a) - 1) : GetSubspace(a, i) = GetSubspace(b, i)
    /\ \A labels \in ProbeSubspaceLabelsLJPN :
          LookUpSubspaceIndex(a, labels) = LookUpSubspaceIndex(b, labels)

\* C26: a copy of a space and its original always report the same size, the
\* same subspaces at every index and the same label lookups, whichever of
\* them a subspace was pushed through, and the bra and ket spaces stored in
\* a BaseSectors share the subspace storage of the spaces it was built on.
C26_CopiesAlias ==
    /\ \A h \in 1..Len(handles) :
          handles[h].copy_of # 0 =>
              SameAnswers(Deref(heap, handles[h].space),
                          Deref(heap, handles[handles[h].copy_of].space))
    /\ base_sectors # NoSectors =>
          /\ base_sectors.bra_space_.subspaces_
               = handles[base_sectors.bra_of].space.subspaces_
          /\ base_sectors.ket_space_.subspaces_
               = handles[base_sectors.ket_of].space.subspaces_
          /\ SameAnswers(Deref(heap, base_sectors.bra_space_),
                         Deref(heap, handles[base_sectors.bra_of].space))
          /\ SameAnswers(Deref(heap, base_sectors.ket_space_),
                         Deref(heap, handles[base_sectors.ket_of].space))

\* a subspace has just been pushed through a handle that has a copy, and a
\* BaseSectors stores a space that holds two subspaces
C26_Witness ==
    /\ call.op = "PushSubspace"
    /\ \E h \in 1..Len(handles) :
          /\ handles[h].copy_of # 0
          /\ SpaceSize(Deref(heap, handles[h].space)) = 2
    /\ base_sectors # NoSectors
    /\ SpaceSize(Deref(heap, base_sectors.bra_space_)) = 2

\* the radial label n of the state at every index is the index
RadialLabelIsIndex(subspace) ==
    \A i \in 0..(size(subspace) - 1) : GetStateLabels(subspace, i)[1] = i

\* C27: in every OrbitalSubspaceLJPN, whichever constructor built it, and so
\* in every subspace of an OrbitalSpaceLJPN, the radial label n of the state
\* at index i equals i.
C27_RadialLabelIsIndex ==
    /\ call.op \in SubspaceLJPNCalls => RadialLabelIsIndex(subspace_ljpn)
    /\ call.op \in SpaceLJPNCalls =>
          \A k \in 0..(SpaceSize(space_ljpn) - 1) :
              RadialLabelIsIndex(GetSubspace(space_ljpn, k))

\* the part of C27 that holds: the truncation-driven constructors
C27_TruncationDriven ==
    /\ call.op = "OrbitalSubspaceLJPN(species,l,j,Nmax)" =>
          RadialLabelIsIndex(subspace_ljpn)
    /\ call.op = "OrbitalSpaceLJPN(Nmax)" =>
          \A k \in 0..(SpaceSize(space_ljpn) - 1) :
              RadialLabelIsIndex(GetSubspace(space_ljpn, k))

\* the labels are those of a state of the subspace
IsStateOf(subspace, state_labels) ==
    \E i \in 0..(size(subspace) - 1) : GetStateLabels(subspace, i) = state_labels

\* C28: BaseState(subspace, index) returns a state exactly when index <
\* size() and BaseState(subspace, labels) exactly when the labels are those
\* of a state of the subspace, and each fails its assertion otherwise;
\* LookUpSubspace(labels) returns the subspace of those labels exactly when
\* the space has one and fails its assertion otherwise; for a state built
\* by labels GetStateLabels(state.index()) equals those labels.
C28_StateViews ==
    /\ result.op = "BaseState(subspace,index)" =>
          IF result.index \in 0..(size(subspace_pn) - 1)
          THEN result.state = [outcome |-> "return", index_ |-> result.index]
          ELSE result.state.outcome = "assert"
    /\ result.op = "BaseState(subspace,labels)" =>
          IF IsStateOf(subspace_pn, result.labels)
          THEN /\ result.state.outcome = "return"
               /\ result.state.index_ \in 0..(size(subspace_pn) - 1)
               /\ GetStateLabels(subspace_pn, result.state.index_) = result.labels
          ELSE result.state.outcome = "assert"
    /\ result.op = "LookUpSubspace" =>
          IF \E k \in 0..(SpaceSize(space_ljpn) - 1) :
                 GetSubspace(space_ljpn, k).labels_ = result.labels
          THEN /\ result.found.outcome = "return"
               /\ result.found.subspace.labels_ = result.labels
          ELSE result.found.outcome = "assert"

\* a state has been built by labels that two states of the subspace carry
C28_Witness ==
    /\ result.op = "BaseState(subspace,labels)"
    /\ result.state.outcome = "return"
    /\ size(subspace_pn) >= 2
    /\ GetStateLabels(subspace_pn, 0) = result.labels
    /\ result.state.index_ > 0

\* the two lists hold the same records, each once
IsPermutation(a, b) ==
    /\ Len(a) = Len(b)
    /\ {a[k] : k \in 1..Len(a)} = {b[k] : k \in 1..Len(b)}
    /\ \A k, m \in 1..Len(a) : a[k] = a[m] => k = m
    /\ \A k, m \in 1..Len(b) : b[k] = b[m] => k = m

\* C29: for every Nmax >= 0, OrbitalSpaceLJPN(Nmax).OrbitalInfo() is a
\* permutation of OrbitalSpacePN(Nmax).OrbitalInfo(), the two Dimension()
\* values are equal, and OrbitalSpaceLJPN(Nmax) has 2*(2*Nmax+1) subspaces
\* ordered by species, then l, then j.
C29_SameOrbitals ==
    (call.op = "OrbitalSpaceLJPN(Nmax)" /\ call.Nmax >= 0) =>
        LET pn == OrbitalSpacePN_Nmax(call.Nmax)
        IN  /\ IsPermutation(OrbitalSpaceLJPN_OrbitalInfo(space_ljpn),
                             OrbitalSpacePN_OrbitalInfo(pn))
            /\ Dimension(space_ljpn) = Dimension(pn)
            /\ SpaceSize(space_ljpn) = 2 * (2 * call.Nmax + 1)
            /\ \A k \in 0..(SpaceSize(space_ljpn) - 2) :
                  TupleLess(GetSubspace(space_ljpn, k).labels_,
                            GetSubspace(space_ljpn, k + 1).labels_)

C29_Witness ==
    /\ call.op = "OrbitalSpaceLJPN(Nmax)"
    /\ call.Nmax = 3
    /\ SpaceSize(space_ljpn) = 14
    /\ Dimension(space_ljpn) = 20

\* the object rebuilt from the flattened original carries the original's tag
SameTag(original, rebuilt) ==
    /\ rebuilt.is_oscillator_like_ = original.is_oscillator_like_
    /\ rebuilt.Nmax_ = original.Nmax_

\* the truncation-driven object in the state, and the one rebuilt from it
RebuiltSubspacePN ==
    OrbitalSubspacePN_List(call.orbital_species,
                           OrbitalSubspacePN_OrbitalInfo(subspace_pn))

RebuiltSpacePN == OrbitalSpacePN_List(OrbitalSpacePN_OrbitalInfo(space_pn))

\* C30 as stated: for every species and every integer Nmax, negative values
\* included, the list-driven OrbitalSubspacePN built from
\* OrbitalSubspacePN(species, Nmax).OrbitalInfo() has the is_oscillator_like
\* flag and the Nmax of the original, and likewise
\* OrbitalSpacePN(OrbitalSpacePN(Nmax).OrbitalInfo()) against
\* OrbitalSpacePN(Nmax).
C30_TagPreservedAsStated ==
    /\ call.op = "OrbitalSubspacePN(species,Nmax)" =>
          SameTag(subspace_pn, RebuiltSubspacePN)
    /\ call.op = "OrbitalSpacePN(Nmax)" => SameTag(space_pn, RebuiltSpacePN)

\* C30 (amended): the tag is preserved for every Nmax >= 0; for Nmax < 0 the
\* original is empty and tagged oscillator-like with that Nmax, and the
\* object rebuilt from its empty list is not oscillator-like and has Nmax -1.
C30_TagPreserved ==
    /\ call.op = "OrbitalSubspacePN(species,Nmax)" =>
          IF call.Nmax >= 0 THEN SameTag(subspace_pn, RebuiltSubspacePN)
          ELSE /\ subspace_pn.is_oscillator_like_ /\ subspace_pn.Nmax_ = call.Nmax
               /\ ~RebuiltSubspacePN.is_oscillator_like_
               /\ RebuiltSubspacePN.Nmax_ = -1
    /\ call.op = "OrbitalSpacePN(Nmax)" =>
          IF call.Nmax >= 0 THEN SameTag(space_pn, RebuiltSpacePN)
          ELSE /\ space_pn.is_oscillator_like_ /\ space_pn.Nmax_ = call.Nmax
               /\ ~RebuiltSpacePN.is_oscillator_like_
               /\ RebuiltSpacePN.Nmax_ = -1

C30_Witness ==
    /\ call.op = "OrbitalSpacePN(Nmax)"
    /\ call.Nmax = 2
    /\ Dimension(space_pn) = 12
    /\ RebuiltSpacePN.is_oscillator_like_
    /\ RebuiltSpacePN.Nmax_ = 2

====
